---- MODULE Spec2Model ----
(***************************************************************************)
(* Step execution and resume state machine of the OpenSpace platform       *)
(* installer: StepExecutor (data/lib/step_executor.py) driven by the step  *)
(* loop of deploy-env.py, over the execution ledger kept by StateManager   *)
(* (data/lib/state.py) and the command builder of data/lib/executor.py.    *)
(***************************************************************************)
EXTENDS Integers, Sequences, FiniteSets, TLC

(***************************************************************************)
(* Bounds of the model.                                                    *)
(***************************************************************************)
\* longest plan explored
MaxSteps == 2

\* largest timeout of a step, in ticks of the clock
MaxTimeout == 2

\* longest text given to the placeholder renderer (besides the examples)
MaxText == 3

(***************************************************************************)
(* Values of the plan document.                                            *)
(***************************************************************************)
\* a dict key that is not present (step.get returns its default)
Absent == "<absent>"

\* ids of the steps of a plan, by position (unique within the plan)
Ids == <<"a", "a_h", "b", "c">>

\* str.lower() on the kind values of the model
Lower(s) ==
    CASE s = "Command" -> "command"
      [] s = "Ansible" -> "ansible"
      [] OTHER -> s

\* a hosts value: a scalar name or a list of names
Scalar(n) == [isList |-> FALSE, names |-> <<n>>]
List(ns) == [isList |-> TRUE, names |-> ns]

\* hosts known to the inventory document (config.yml)
InventoryHosts == {"h", "g"}

\* files present under the data directory
ExistingFiles == {<<"/", "docker-workspace", "data", "tasks", "run.sh">>,
                  <<"/", "docker-workspace", "config", "env", "site.yml">>}

\* ctx.data_dir
DATA_DIR == <<"/", "docker-workspace", "data">>

\* file values of a step: path components, <<>> for a missing field
NoFile == <<>>
FileRun == <<"tasks", "run.sh">>
FileGone == <<"tasks", "gone.sh">>
FileOutside == <<"/", "etc", "run.sh">>
FileConfig == <<"/", "docker-workspace", "config", "env", "site.yml">>

\* step.get(field, default)
Get(v, default) == IF v = Absent THEN default ELSE v

MkStep(kind, of, it, hosts, cmd, file) ==
    [kind |-> kind, on_failure |-> of, iterate |-> it, hosts |-> hosts,
     command |-> cmd, file |-> file]

\* the step shapes a plan is built from (the id is given by the position)
StepShapes ==
    \* no kind
    { MkStep(Absent, of, FALSE, Scalar("localhost"), "echo hi", NoFile) :
        of \in {"fail", "continue"} }
    \cup
    \* command steps on one target, with and without the command text
    { MkStep("command", of, FALSE, Scalar("localhost"), "echo hi", NoFile) :
        of \in {Absent, "fail", "continue"} }
    \cup
    { MkStep("command", of, FALSE, Scalar("localhost"), Absent, NoFile) :
        of \in {"fail", "continue"} }
    \cup
    { MkStep("command", "fail", TRUE, Scalar("localhost"), "echo hi", NoFile) }
    \cup
    \* command steps on a list of hosts
    { MkStep("command", of, TRUE, List(<<"h", "g">>), "echo hi", NoFile) :
        of \in {"fail", "continue"} }
    \cup
    { MkStep("command", "fail", ih[1], List(ih[2]), "echo hi", NoFile) :
        ih \in {<<FALSE, <<"h", "g">>>>, <<TRUE, <<"h">>>>} }
    \cup
    { MkStep("command", "continue", TRUE, List(<<"h", "g">>), "", NoFile) }
    \cup
    \* command step on a remote target that the inventory does not know
    { MkStep("command", of, FALSE, Scalar("x"), "echo hi", NoFile) :
        of \in {"fail", "continue"} }
    \cup
    \* file-based steps
    { MkStep("bash", of, FALSE, Scalar("localhost"), Absent, f) :
        of \in {"fail", "continue"},
        f \in {NoFile, FileRun, FileGone, FileOutside} }
    \cup
    { MkStep("ansible", "fail", TRUE, List(<<"h", "g">>), Absent, FileConfig) }
    \cup
    \* a kind written in another case, and unknown kinds
    { MkStep("Command", "continue", TRUE, List(<<"h", "g">>), Absent, f) :
        f \in {NoFile, FileRun} }
    \cup
    { MkStep("bogus", of, FALSE, Scalar("localhost"), Absent, FileRun) :
        of \in {"fail", "continue"} }
    \cup
    { MkStep("bogus", "fail", FALSE, Scalar("localhost"), Absent, NoFile) }

\* the plan made of the shapes p, with the ids of the positions
PlanOf(p) == [i \in DOMAIN p |-> [id |-> Ids[i]] @@ p[i]]

(***************************************************************************)
(* Fields of a step as the executor reads them.                            *)
(***************************************************************************)
\* str(step.get("id", index)): the plans of the model carry their ids
StepId(step) == step.id

\* step.get("kind", "")
KindOf(step) == Get(step.kind, "")

\* step.get("on_failure", "fail")
OnFailure(step) == Get(step.on_failure, "fail")

\* `not step.get("command")`: the field is missing or empty
NoCommand(step) == Get(step.command, "") = ""

(***************************************************************************)
(* StateManager: the steps mapping of the ledger, key -> record.           *)
(***************************************************************************)
EmptyLedger == <<>>

Put(m, key, rec) ==
    [k \in (DOMAIN m) \cup {key} |-> IF k = key THEN rec ELSE m[k]]

\* a mark_running that writes no record
mark_running_lost(m, key, kind) == m

\* self.state["steps"][step_id] = {"status": "running", **kwargs}
mark_running(m, key, kind) ==
    Put(m, key, [status |-> "running", kind |-> kind, reason |-> Absent])

\* a mark_success that leaves the record as it is
mark_success_lost(m, key) == m

\* set the status of an existing record to ok
mark_success(m, key) ==
    IF key \in DOMAIN m THEN Put(m, key, [m[key] EXCEPT !.status = "ok"])
    ELSE m

\* set the status of an existing record to failed
mark_failed(m, key) ==
    IF key \in DOMAIN m THEN Put(m, key, [m[key] EXCEPT !.status = "failed"])
    ELSE m

\* a mark_skipped that drops the reason
mark_skipped_no_reason(m, key, reason) ==
    Put(m, key, [status |-> "skipped", kind |-> Absent, reason |-> Absent])

\* a mark_skipped that records the defect as a failure
mark_skipped_as_failed(m, key, reason) ==
    Put(m, key, [status |-> "failed", kind |-> Absent, reason |-> reason])

\* replace the record by {"status": "skipped"[, "reason": reason]}
mark_skipped(m, key, reason) ==
    Put(m, key, [status |-> "skipped", kind |-> Absent,
                 reason |-> IF reason = "" THEN Absent ELSE reason])

\* self.state.get("steps", {}).get(step_id, {}).get("status")
get_step_status(m, key) ==
    IF key \in DOMAIN m THEN m[key].status ELSE Absent

\* a resume check that also takes a failed record for completed
is_completed_or_failed(m, key) == get_step_status(m, key) \in {"ok", "failed"}

\* the resume check
is_completed(m, key) == get_step_status(m, key) = "ok"

(***************************************************************************)
(* StepExecutor: iteration, and the command builder's outcome.             *)
(***************************************************************************)
\* an iteration test that looks at iterate and the list only
_should_iterate_any_list(step) == step.iterate /\ step.hosts.isList

_should_iterate(step) ==
    /\ Lower(KindOf(step)) = "command"
    /\ step.iterate
    /\ step.hosts.isList
    /\ Len(step.hosts.names) > 1

\* step_for_host of _execute_iterated: the step with hosts set to one host
StepForHost(step, h) == [step EXCEPT !.hosts = Scalar(step.hosts.names[h])]

\* suffix of the ledger key: "_{host}" for an iteration, "" otherwise
Suffix(step, h) == IF h = 0 THEN "" ELSE "_" \o step.hosts.names[h]

\* a ledger key that carries the first host of a hosts list in every case
StateKey_with_host(step, h) ==
    StepId(step)
    \o (IF h > 0 THEN "_" \o step.hosts.names[h]
        ELSE IF step.hosts.isList THEN "_" \o step.hosts.names[1]
        ELSE "")

\* state_key = step_id + suffix
StateKey(step, h) == StepId(step) \o Suffix(step, h)

\* find_step_file: "raise" for an absolute path outside the config prefix
find_step_file(file) ==
    IF file[1] = "/"
    THEN IF Len(file) > 3 /\ file[2] = "docker-workspace" /\ file[3] = "config"
         THEN file ELSE <<"raise">>
    ELSE DATA_DIR \o file

\* build_command: "argv", or the exception it raises
build_command(step) ==
    LET kind == Lower(KindOf(step))
        target == step.hosts.names[1]
    IN  CASE kind = "command" ->
                IF NoCommand(step) THEN "ExecutionError"
                ELSE IF target = "localhost" THEN "argv"
                ELSE IF target \in InventoryHosts THEN "argv"
                ELSE "InventoryError"
          [] kind \in {"ansible", "python", "python3", "shell", "bash", "sh"} ->
                "argv"
          [] OTHER -> "ExecutionError"

(***************************************************************************)
(* Results of a run (exit status of deploy-env.py).                        *)
(***************************************************************************)
EXIT_SUCCESS == 0
EXIT_CONFIG_ERROR == 2
EXIT_FILE_NOT_FOUND == 3
EXIT_UNSUPPORTED_KIND == 4
EXIT_STEP_FAILED == 5
EXIT_INTERRUPTED == 130

\* exit codes of a spawned process: success, failure, killed on timeout
ExitCodes == {0, 1, 124}

(***************************************************************************)
(* State of the orchestrator.                                              *)
(***************************************************************************)
VARIABLES
    plan,      \* the steps of the deployment document
    disk,      \* steps mapping of the state file
    state,     \* steps mapping of state_mgr.state (in memory)
    resume,    \* ctx.resume of the current run
    pc,        \* "idle", "step" (loop head), "host" (iteration), "proc"
    idx,       \* 1-based index of the current step
    hidx,      \* 1-based index of the current host, 0 when not iterating
    spawned,   \* units whose process this run has spawned, in order
    exits,     \* per process of this run that returned: did it return 0
    state0,    \* the ledger as this run loaded it
    loaded,    \* what this run found as its state file ("none": no run yet)
    res,       \* outcome of this run, code -1 while it is running
    prev,      \* outcome of the run before this one
    file,      \* the state file: "missing", "ok" (parses) or "corrupt"
    meta,      \* env, deployment_type, deployment_plan of the state file
    writable,  \* the storage takes the next write of the state file
    rc,        \* one call of run_command and the process it spawned
    call,      \* a library function under test and its arguments
    ret,       \* <<>> until the function returned, then <<its result>>
    peer,      \* a second orchestrator instance on the same state file
    task       \* run_task.py: its state file and the invocation in progress

\* the variables of the library calls, which the step loop leaves alone
aux == <<rc, call, ret, peer, task>>

\* the variables of the step loop and of the ledger
loopv ==
    <<plan, disk, state, resume, pc, idx, hidx, spawned, exits, state0,
      loaded, res, prev, file, meta, writable>>

vars ==
    <<plan, disk, state, resume, pc, idx, hidx, spawned, exits, state0,
      loaded, res, prev, file, meta, writable, rc, call, ret, peer, task>>

NoRun == [code |-> -1, idx |-> 0, hidx |-> 0, cause |-> "none"]

\* the metadata of a document: none in a fresh one, those of the run
Meta(e, t, p) == [env |-> e, deployment_type |-> t, deployment_plan |-> p]
NoMeta == Meta(Absent, Absent, Absent)
RunMeta == Meta("prod", "basekit", "default")

\* no call of run_command, no library call
NoProc ==
    [pc |-> "none", timeout |-> 0, alive |-> FALSE, out |-> FALSE,
     clock |-> 0, t0 |-> 0, code |-> -1, ret |-> -1, orphans |-> 0]
NoCall == [fn |-> "none"]

\* the step loop starts with no call in progress
NoAux ==
    /\ rc = NoProc
    /\ call = NoCall
    /\ ret = <<>>

\* no second orchestrator instance has started
NoPeer == [pc |-> "none", state |-> EmptyLedger, idx |-> 0]

\* run_task.py: the state file before the first invocation
\* {"tasks": {}, "last_run": None, "status": "not_started"}, nothing running
NoTask ==
    [tasks |-> <<>>, last_run |-> Absent, pc |-> "idle", cur |-> Absent,
     op |-> "none", ret |-> -1]

\* the orchestrator before its first run
Idle0 ==
    /\ resume = FALSE
    /\ pc = "idle"
    /\ idx = 0
    /\ hidx = 0
    /\ spawned = <<>>
    /\ exits = <<>>
    /\ state0 = EmptyLedger
    /\ loaded = "none"
    /\ res = NoRun
    /\ prev = NoRun
    /\ writable = TRUE
    /\ peer = NoPeer
    /\ task = NoTask

Init ==
    /\ \E n \in 1..MaxSteps : \E p \in [1..n -> StepShapes] : plan = PlanOf(p)
    /\ disk = EmptyLedger
    /\ state = EmptyLedger
    /\ file = "missing"
    /\ meta = NoMeta
    /\ Idle0
    /\ NoAux

\* the step and the execution unit the executor is at
step == plan[idx]
unit == IF hidx = 0 THEN step ELSE StepForHost(step, hidx)
key == StateKey(step, hidx)

\* execute_step passed its two checks and runs the step as a single unit,
\* or _execute_iterated is at one of its hosts
AtUnit ==
    \/ /\ pc = "step"
       /\ KindOf(step) # ""
       /\ ~(resume /\ is_completed(state, StepId(step)))
       /\ ~_should_iterate(step)
    \/ pc = "host"

\* save(): the document replaces the state file; a write that fails is
\* logged and leaves the file as it was (open failed) or cut short
Save(doc) ==
    IF writable
    THEN /\ disk' = doc.steps
         /\ meta' = Meta(doc.env, doc.deployment_type, doc.deployment_plan)
         /\ file' = "ok"
    ELSE /\ disk' = disk
         /\ meta' = meta
         /\ file' \in {file, "corrupt"}

\* the document in memory during a run
Document(m) == RunMeta @@ [steps |-> m]

\* a mark that changes the steps in memory and does not write the file
Mark_memory_only(m) ==
    /\ state' = m
    /\ UNCHANGED <<disk, file, meta>>

\* every mark changes the steps in memory and persists the document
Mark(m) ==
    /\ state' = m
    /\ Save(Document(m))

\* the unit returned True: next host, next step, or the end of the loop
ReturnTrue ==
    IF hidx > 0 /\ hidx < Len(step.hosts.names)
    THEN /\ pc' = "host"
         /\ hidx' = hidx + 1
         /\ UNCHANGED <<idx, res>>
    ELSE IF idx < Len(plan)
    THEN /\ pc' = "step"
         /\ idx' = idx + 1
         /\ hidx' = 0
         /\ UNCHANGED res
    ELSE /\ pc' = "idle"
         /\ res' = [code |-> EXIT_SUCCESS, idx |-> 0, hidx |-> 0,
                    cause |-> "none"]
         /\ UNCHANGED <<idx, hidx>>

\* a loop that goes on after a unit returned False
ReturnFalse_goes_on(cause) == ReturnTrue

\* the unit returned False, or raised: the loop returns EXIT_STEP_FAILED
ReturnFalse(cause) ==
    /\ pc' = "idle"
    /\ res' = [code |-> EXIT_STEP_FAILED, idx |-> idx, hidx |-> hidx,
               cause |-> cause]
    /\ UNCHANGED <<idx, hidx>>

\* an executor that halts whatever the unit returned
Return_halts(ok, cause) == ReturnFalse(cause)

Return(ok, cause) == IF ok THEN ReturnTrue ELSE ReturnFalse(cause)

(***************************************************************************)
(* deploy-env.py main: load the ledger, initialize, enter the step loop.   *)
(***************************************************************************)
\* a _load that takes the records of a damaged document
_load_damaged(f, d) == d

\* StateManager._load: the steps of the document, fresh when the file is
\* missing or does not parse
_load(f, d) == IF f = "ok" THEN d ELSE EmptyLedger

\* the document _load returns: that of the file, or {"steps": {}}
Loaded ==
    (IF file = "ok" THEN meta ELSE NoMeta) @@ [steps |-> _load(file, disk)]

\* an initialize that starts every run on empty steps
initialize_fresh(doc, env_name, deployment_type, deployment_plan) ==
    Meta(env_name, deployment_type, deployment_plan) @@ [steps |-> EmptyLedger]

\* StateManager.initialize, before its save()
initialize(doc, env_name, deployment_type, deployment_plan) ==
    [doc EXCEPT !.env = env_name, !.deployment_type = deployment_type,
                !.deployment_plan = deployment_plan]

StartRun(r) ==
    /\ pc = "idle"
    /\ resume' = r
    /\ LET doc == initialize(Loaded, RunMeta.env, RunMeta.deployment_type,
                             RunMeta.deployment_plan)
       IN  /\ state' = doc.steps
           /\ Save(doc)
    /\ state0' = state'
    /\ loaded' = file
    /\ prev' = res
    /\ res' = NoRun
    /\ pc' = "step"
    /\ idx' = 1
    /\ hidx' = 0
    /\ spawned' = <<>>
    /\ exits' = <<>>
    /\ UNCHANGED <<plan, writable, aux>>

(***************************************************************************)
(* StepExecutor.execute_step                                               *)
(***************************************************************************)
MissingKind ==
    /\ pc = "step"
    /\ KindOf(step) = ""
    /\ Mark(mark_skipped(state, StepId(step), "missing kind"))
    /\ ReturnTrue
    /\ UNCHANGED <<plan, writable, resume, spawned, exits, state0, loaded, prev, aux>>

\* a resume check that records the skip in the ledger
AlreadyCompleted_marks ==
    /\ pc = "step"
    /\ KindOf(step) # ""
    /\ resume /\ is_completed(state, StepId(step))
    /\ Mark(mark_skipped(state, StepId(step), "already completed"))
    /\ ReturnTrue
    /\ UNCHANGED <<plan, writable, resume, spawned, exits, state0, loaded,
                   prev, aux>>

\* if self.resume and self.state_mgr.is_completed(step_id): return True
AlreadyCompleted ==
    /\ pc = "step"
    /\ KindOf(step) # ""
    /\ resume /\ is_completed(state, StepId(step))
    /\ ReturnTrue
    /\ UNCHANGED <<plan, writable, disk, state, file, meta, resume, spawned, exits, state0, loaded,
                   prev, aux>>

BeginIterate ==
    /\ pc = "step"
    /\ KindOf(step) # ""
    /\ ~(resume /\ is_completed(state, StepId(step)))
    /\ _should_iterate(step)
    /\ pc' = "host"
    /\ hidx' = 1
    /\ UNCHANGED <<plan, writable, disk, state, file, meta, resume, idx, spawned, exits,
                   state0, loaded, res, prev, aux>>

(***************************************************************************)
(* StepExecutor._execute_single                                            *)
(***************************************************************************)
MissingCommand ==
    /\ AtUnit
    /\ KindOf(unit) = "command"
    /\ NoCommand(unit)
    /\ Mark(mark_skipped(state, key, "missing command"))
    /\ Return(OnFailure(unit) = "continue", "missing command")
    /\ UNCHANGED <<plan, writable, resume, spawned, exits, state0, loaded, prev, aux>>

MissingFile ==
    /\ AtUnit
    /\ KindOf(unit) # "command"
    /\ unit.file = NoFile
    /\ Mark(mark_skipped(state, key, "missing file"))
    /\ ReturnTrue
    /\ UNCHANGED <<plan, writable, resume, spawned, exits, state0, loaded, prev, aux>>

InvalidFile ==
    /\ AtUnit
    /\ KindOf(unit) # "command"
    /\ unit.file # NoFile
    /\ find_step_file(unit.file) = <<"raise">>
    /\ Mark(mark_skipped(state, key, "use relative paths"))
    /\ ReturnFalse("invalid file")
    /\ UNCHANGED <<plan, writable, resume, spawned, exits, state0, loaded, prev, aux>>

FileNotFound ==
    /\ AtUnit
    /\ KindOf(unit) # "command"
    /\ unit.file # NoFile
    /\ find_step_file(unit.file) # <<"raise">>
    /\ find_step_file(unit.file) \notin ExistingFiles
    /\ Mark(mark_skipped(state, key, "file not found"))
    /\ ReturnFalse("file not found")
    /\ UNCHANGED <<plan, writable, resume, spawned, exits, state0, loaded, prev, aux>>

\* the unit passed the checks of its required field and of its file
Buildable ==
    /\ AtUnit
    /\ IF KindOf(unit) = "command" THEN ~NoCommand(unit)
       ELSE /\ unit.file # NoFile
            /\ find_step_file(unit.file) \in ExistingFiles

BuildError ==
    /\ Buildable
    /\ build_command(unit) = "ExecutionError"
    /\ Mark(mark_skipped(state, key, "build error"))
    /\ ReturnFalse("build error")
    /\ UNCHANGED <<plan, writable, resume, spawned, exits, state0, loaded, prev, aux>>

\* InventoryError is not caught by the executor: main returns on it
HostNotFound ==
    /\ Buildable
    /\ build_command(unit) = "InventoryError"
    /\ ReturnFalse("host not found")
    /\ UNCHANGED <<plan, writable, disk, state, file, meta, resume, spawned, exits, state0, loaded,
                   prev, aux>>

\* mark_running, then run_command starts the process
Spawn ==
    /\ Buildable
    /\ build_command(unit) = "argv"
    /\ Mark(mark_running(state, key, KindOf(unit)))
    /\ spawned' = Append(spawned, <<idx, hidx>>)
    /\ pc' = "proc"
    /\ UNCHANGED <<plan, writable, resume, idx, hidx, exits, state0, loaded, res, prev, aux>>

\* run_command returned exit_code
ProcExit(c) ==
    /\ pc = "proc"
    /\ IF c = 0
       THEN /\ Mark(mark_success(state, key))
            /\ ReturnTrue
       ELSE /\ Mark(mark_failed(state, key))
            /\ Return(OnFailure(unit) = "continue", "exit")
    /\ exits' = Append(exits, c = 0)
    /\ UNCHANGED <<plan, writable, resume, spawned, state0, loaded, prev, aux>>

\* KeyboardInterrupt while run_command waits for the process
Interrupt ==
    /\ pc = "proc"
    /\ pc' = "idle"
    /\ res' = [code |-> EXIT_INTERRUPTED, idx |-> idx, hidx |-> hidx,
               cause |-> "interrupt"]
    /\ UNCHANGED <<plan, writable, disk, state, file, meta, resume, idx, hidx, spawned, exits,
                   state0, loaded, prev, aux>>

Next ==
    \/ \E r \in BOOLEAN : StartRun(r)
    \/ MissingKind
    \/ AlreadyCompleted
    \/ BeginIterate
    \/ MissingCommand
    \/ MissingFile
    \/ InvalidFile
    \/ FileNotFound
    \/ BuildError
    \/ HostNotFound
    \/ Spawn
    \/ \E c \in ExitCodes : ProcExit(c)
    \/ Interrupt

Spec == Init /\ [][Next]_vars

(***************************************************************************)
(* Vocabulary of the properties.                                           *)
(***************************************************************************)
\* no step of the plan runs once per host
AllSingle == \A i \in DOMAIN plan : ~_should_iterate(plan[i])

\* the unit passes every check of _execute_single and gets a process
Executable(s) ==
    /\ KindOf(s) # ""
    /\ IF KindOf(s) = "command" THEN ~NoCommand(s)
       ELSE /\ s.file # NoFile
            /\ find_step_file(s.file) \in ExistingFiles
    /\ build_command(s) = "argv"

\* this run has dealt with unit (j, h): it is past it, in it, or ended at it
Passed(j, h) ==
    \/ j < idx
    \/ /\ j = idx
       /\ \/ h < hidx
          \/ h = hidx /\ pc \in {"proc", "idle"}

\* this run spawned a process for unit (j, h)
SpawnedUnit(j, h) == \E n \in DOMAIN spawned : spawned[n] = <<j, h>>

\* the run before this one halted at a step (it returned EXIT_STEP_FAILED)
PrevHalted == prev.code = EXIT_STEP_FAILED

(***************************************************************************)
(* C1: resume idempotence for single-execution steps.  As stated: when the *)
(* first run halted at step k and the plan is run again with resume, the   *)
(* second run spawns a process for step k and for every later step it      *)
(* reaches, and none for a step whose record was ok after the first run.   *)
(***************************************************************************)
C1_Original ==
    (resume /\ PrevHalted /\ AllSingle) =>
        /\ Passed(prev.idx, 0) => SpawnedUnit(prev.idx, 0)
        /\ \A j \in DOMAIN plan :
              (j > prev.idx /\ Passed(j, 0)
                 /\ ~is_completed(state0, StepId(plan[j])))
              => SpawnedUnit(j, 0)
        /\ \A j \in DOMAIN plan :
              is_completed(state0, StepId(plan[j])) => ~SpawnedUnit(j, 0)

\* C1 as amended: when the first run halted at step k because the process of
\* step k exited non-zero, the second run with resume gets to step k and
\* spawns a process for it, spawns a process for every later step it reaches
\* that is validly configured and not already ok, and spawns none for a step
\* whose record (key = step id) was ok at the end of the first run.
C1_ResumeIdempotence ==
    (resume /\ PrevHalted /\ prev.cause = "exit" /\ AllSingle) =>
        /\ (pc = "idle" /\ res.code \in {EXIT_SUCCESS, EXIT_STEP_FAILED})
              => idx >= prev.idx
        /\ Passed(prev.idx, 0) => SpawnedUnit(prev.idx, 0)
        /\ \A j \in DOMAIN plan :
              (j > prev.idx /\ Passed(j, 0) /\ Executable(plan[j])
                 /\ ~is_completed(state0, StepId(plan[j])))
              => SpawnedUnit(j, 0)
        /\ \A j \in DOMAIN plan :
              is_completed(state0, StepId(plan[j])) => ~SpawnedUnit(j, 0)

\* the second run skipped the completed step 1 and re-ran the failed step 2
C1_Witness ==
    /\ resume /\ PrevHalted /\ prev.cause = "exit" /\ AllSingle
    /\ prev.idx = 2
    /\ pc = "idle" /\ res.code = EXIT_SUCCESS
    /\ is_completed(state0, StepId(plan[1]))
    /\ ~SpawnedUnit(1, 0)
    /\ SpawnedUnit(2, 0)

(***************************************************************************)
(* C2: resume works per execution unit: a run with resume spawns no        *)
(* process for a host of an iterated step whose record "{step_id}_{host}"  *)
(* was ok in the ledger the run loaded.                                    *)
(***************************************************************************)
C2_ResumePerUnit ==
    resume =>
        \A n \in DOMAIN spawned :
            LET j == spawned[n][1]
                h == spawned[n][2]
            IN  h > 0 => ~is_completed(state0, StateKey(plan[j], h))

\* the execution units of step j: 0 for a single execution, else its hosts
UnitsOf(j) ==
    IF _should_iterate(plan[j]) THEN 1..Len(plan[j].hosts.names) ELSE {0}

\* the ledger keys step j uses: its id (resume check), and its units' keys
KeysOf(j) == {StepId(plan[j])} \cup { StateKey(plan[j], h) : h \in UnitsOf(j) }

\* no ledger key of one step is a ledger key of another step
DistinctKeys ==
    \A i, j \in DOMAIN plan : i # j => KeysOf(i) \cap KeysOf(j) = {}

(***************************************************************************)
(* C3: a unit whose record on disk is running when a run with resume       *)
(* starts is re-attempted when the run reaches it: is_completed is false   *)
(* for it and a process is spawned for it; it is never skipped as already  *)
(* completed.                                                              *)
(***************************************************************************)
C3_RunningIsReattempted ==
    (resume /\ prev.code = EXIT_INTERRUPTED) =>
        LET k == StateKey(plan[prev.idx], prev.hidx)
        IN  /\ get_step_status(state0, k) = "running"
            /\ ~is_completed(state0, k)
            /\ Passed(prev.idx, prev.hidx) => SpawnedUnit(prev.idx, prev.hidx)

\* the step of unit (j, h) as _execute_single receives it
UnitStep(j, h) == IF h = 0 THEN plan[j] ELSE StepForHost(plan[j], h)

\* every unit of the plan passes the checks of _execute_single
AllExecutable ==
    \A j \in DOMAIN plan : \A h \in UnitsOf(j) : Executable(UnitStep(j, h))

\* the ledger keys of the units of the plan
UnitKeys ==
    UNION { { StateKey(plan[j], h) : h \in UnitsOf(j) } : j \in DOMAIN plan }

RECURSIVE CountUnits(_)
\* number of execution units of the first n steps
CountUnits(n) ==
    IF n = 0 THEN 0 ELSE CountUnits(n - 1) + Cardinality(UnitsOf(n))

\* the run is over and every process it spawned returned 0
EndedAllZero ==
    /\ pc = "idle" /\ res.code # -1
    /\ Len(exits) = Len(spawned)
    /\ \A n \in DOMAIN exits : exits[n]

\* every record of the ledger has status ok
AllOk(m) == \A k \in DOMAIN m : m[k].status = "ok"

ProcFails ==
    /\ pc = "proc"
    /\ Len(exits') = Len(exits) + 1
    /\ ~exits'[Len(exits')]

\* control moves to the next host of the step, else to the next step, else
\* the loop ends with the success result
MovesOn ==
    IF hidx > 0 /\ hidx < Len(step.hosts.names)
    THEN pc' = "host" /\ idx' = idx /\ hidx' = hidx + 1 /\ res'.code = -1
    ELSE IF idx < Len(plan)
    THEN pc' = "step" /\ idx' = idx + 1 /\ hidx' = 0 /\ res'.code = -1
    ELSE pc' = "idle" /\ res'.code = EXIT_SUCCESS

\* the run ends at the current unit with the step-failure result
HaltsHere ==
    /\ pc' = "idle"
    /\ res'.code = EXIT_STEP_FAILED
    /\ res'.idx = idx /\ res'.hidx = hidx
    /\ spawned' = spawned

(***************************************************************************)
(* C5: when a unit's process exits non-zero and the step has on_failure =  *)
(* continue, the unit is marked failed and the run does not halt: control  *)
(* goes to the next host of the iterated step, else to the next step.      *)
(***************************************************************************)
C5_ContinueProceeds ==
    [][(ProcFails /\ OnFailure(unit) = "continue") =>
          /\ get_step_status(state', key) = "failed"
          /\ get_step_status(disk', key) = "failed"
          /\ MovesOn]_vars

\* host h of a tolerant iterated step failed; host g and then step 2 ran
C5_Witness ==
    /\ Len(spawned) = 3 /\ Len(exits) >= 1
    /\ ~exits[1]
    /\ OnFailure(plan[1]) = "continue"
    /\ spawned[1] = <<1, 1>>
    /\ spawned[2] = <<1, 2>>
    /\ spawned[3][1] = 2
    /\ get_step_status(state, StateKey(plan[1], 1)) = "failed"

\* (j, h) is the halting unit of this run or comes before it
UpToHalt(j, h) == j < res.idx \/ (j = res.idx /\ h <= res.hidx)

(***************************************************************************)
(* C6: when a unit's process exits non-zero and on_failure is fail or      *)
(* absent, the run halts right after marking the unit failed: no process   *)
(* is spawned for a later host or step, and a run started on a fresh       *)
(* ledger holds no record written for a later unit.                        *)
(***************************************************************************)
C6_FailHalts ==
    /\ [][(ProcFails /\ OnFailure(unit) # "continue") =>
             /\ get_step_status(state', key) = "failed"
             /\ get_step_status(disk', key) = "failed"
             /\ HaltsHere]_vars
    /\ [](  (pc = "idle" /\ res.code = EXIT_STEP_FAILED /\ res.cause = "exit")
            => /\ spawned[Len(spawned)] = <<res.idx, res.hidx>>
               /\ \A n \in DOMAIN spawned :
                     UpToHalt(spawned[n][1], spawned[n][2])
               /\ DOMAIN state0 = {} =>
                     \A k \in DOMAIN state :
                        \E j \in DOMAIN plan : \E h \in UnitsOf(j) :
                           UpToHalt(j, h) /\ k = StateKey(plan[j], h) )

\* host h of an iterated step failed on a fresh ledger: host g and step 2
\* have no process and no record
C6_Witness ==
    /\ pc = "idle" /\ res.code = EXIT_STEP_FAILED /\ res.cause = "exit"
    /\ DOMAIN state0 = {}
    /\ Len(plan) = 2
    /\ res.idx = 1 /\ res.hidx = 1
    /\ spawned = <<<<1, 1>>>>
    /\ DOMAIN state = {StateKey(plan[1], 1)}
    /\ get_step_status(state, StateKey(plan[1], 1)) = "failed"

\* the record stored under key k, Absent when there is none
RecordOf(m, k) == IF k \in DOMAIN m THEN m[k] ELSE Absent

\* the keys whose record differs between the ledgers m and n
Changed(m, n) ==
    { k \in (DOMAIN m) \cup (DOMAIN n) :
        \/ k \notin DOMAIN m
        \/ k \notin DOMAIN n
        \/ m[k] # n[k] }

\* the iteration condition: kind command (compared in lower case, as
\* _should_iterate does), iterate true, hosts a list of more than one entry
IterCond(s) ==
    /\ Lower(KindOf(s)) = "command"
    /\ s.iterate = TRUE
    /\ s.hosts.isList
    /\ Len(s.hosts.names) >= 2

C8_MissingKindSkips ==
    [][(pc = "step" /\ KindOf(step) = "") =>
          /\ RecordOf(state', StepId(step)) =
                [status |-> "skipped", kind |-> Absent,
                 reason |-> "missing kind"]
          /\ disk' = state'
          /\ spawned' = spawned
          /\ MovesOn]_vars

\* a step with no kind and on_failure fail, in a run with resume, was
\* recorded skipped and the run went on with step 2 to the end
C8_Witness ==
    /\ resume
    /\ Len(plan) = 2
    /\ KindOf(plan[1]) = "" /\ OnFailure(plan[1]) = "fail"
    /\ get_step_status(state, StepId(plan[1])) = "skipped"
    /\ state[StepId(plan[1])].reason = "missing kind"
    /\ ~SpawnedUnit(1, 0)
    /\ SpawnedUnit(2, 0)
    /\ pc = "idle" /\ res.code = EXIT_SUCCESS

\* the unit has a kind but not the field its kind requires
MissingField(s) ==
    /\ KindOf(s) # ""
    /\ IF KindOf(s) = "command" THEN NoCommand(s) ELSE s.file = NoFile

(***************************************************************************)
(* C9: a unit that has a kind but lacks its required field (command text,  *)
(* or file path) is a hard stop: the run halts at that unit whatever the   *)
(* on_failure value, and no later step is executed.                        *)
(***************************************************************************)
C9_MissingFieldHalts ==
    \A j \in DOMAIN plan :
        (MissingField(plan[j]) /\ ~_should_iterate(plan[j])
            /\ ~is_completed(state0, StepId(plan[j])))
        => /\ idx <= j
           /\ ~(pc = "idle" /\ res.code = EXIT_SUCCESS)

(***************************************************************************)
(* C10: a unit missing its required field (command or file) is recorded    *)
(* in the ledger with status skipped, never with status failed.            *)
(***************************************************************************)
C10_MissingFieldSkipped ==
    [][(AtUnit /\ MissingField(unit)) =>
          /\ get_step_status(state', key) = "skipped"
          /\ get_step_status(disk', key) = "skipped"
          /\ Changed(state, state') \subseteq {key}]_vars

\* a command step without command text and a file step without file were
\* both handled and both are recorded skipped
C10_Witness ==
    /\ Len(plan) = 2
    /\ KindOf(plan[1]) = "command" /\ NoCommand(plan[1])
    /\ KindOf(plan[2]) = "bash" /\ plan[2].file = NoFile
    /\ pc = "idle" /\ res.code = EXIT_SUCCESS
    /\ get_step_status(state, StepId(plan[1])) = "skipped"
    /\ state[StepId(plan[1])].reason = "missing command"
    /\ get_step_status(state, StepId(plan[2])) = "skipped"
    /\ state[StepId(plan[2])].reason = "missing file"

\* the unit names a file that is outside the allowed places or not there
BadFile(s) ==
    /\ KindOf(s) # ""
    /\ KindOf(s) # "command"
    /\ s.file # NoFile
    /\ find_step_file(s.file) \notin ExistingFiles

(***************************************************************************)
(* C11: for a file-based kind whose file path is invalid or does not       *)
(* exist, no process is spawned, the unit's ledger record is set to failed *)
(* and the run halts whatever the on_failure value.                        *)
(***************************************************************************)
C11_BadFileFails ==
    [][(AtUnit /\ BadFile(unit)) =>
          /\ get_step_status(state', key) = "failed"
          /\ get_step_status(disk', key) = "failed"
          /\ HaltsHere]_vars

\* the kinds build_command knows (it compares the kind in lower case)
KnownKinds ==
    {"command", "ansible", "python", "python3", "shell", "bash", "sh"}

UnknownKind(s) == KindOf(s) # "" /\ Lower(KindOf(s)) \notin KnownKinds

(***************************************************************************)
(* C12: a step whose kind is none of command, ansible, python, python3,    *)
(* shell, bash, sh halts the run, for every on_failure and whatever its    *)
(* other fields are (also with no file field): the run does not go past    *)
(* the step and does not end with the success result.                      *)
(***************************************************************************)
C12_UnknownKindHalts ==
    \A j \in DOMAIN plan :
        (UnknownKind(plan[j]) /\ ~resume)
        => /\ idx <= j
           /\ ~(pc = "idle" /\ res.code = EXIT_SUCCESS)

(***************************************************************************)
(* C13: the run returns the success result only if every unit of the plan  *)
(* ended with ledger status ok, or failed under on_failure = continue, or  *)
(* was skipped by resume because its step was already ok: no step is left  *)
(* skipped or unexecuted by a successful run.                              *)
(***************************************************************************)
C13_SuccessMeansAllDone ==
    (pc = "idle" /\ res.code = EXIT_SUCCESS) =>
        \A j \in DOMAIN plan : \A h \in UnitsOf(j) :
            \/ get_step_status(state, StateKey(plan[j], h)) = "ok"
            \/ /\ get_step_status(state, StateKey(plan[j], h)) = "failed"
               /\ OnFailure(plan[j]) = "continue"
            \/ resume /\ is_completed(state0, StepId(plan[j]))

\* the run ends with the interrupted status while a process is in flight
Interrupted ==
    /\ pc = "proc"
    /\ pc' = "idle"
    /\ res'.code = EXIT_INTERRUPTED

(***************************************************************************)
(* C14: an operator interrupt while a unit's process is in flight applies  *)
(* no mark to the unit: its record on disk stays running, the run ends     *)
(* with status 130, which is neither the configuration-error nor the       *)
(* step-failure status, and a later run with resume re-attempts the unit.  *)
(***************************************************************************)
C14_InterruptLeavesRunning ==
    /\ [][Interrupted =>
             /\ state' = state
             /\ disk' = disk
             /\ get_step_status(disk', key) = "running"
             /\ exits' = exits]_vars
    /\ [](  res.code = EXIT_INTERRUPTED =>
              /\ res.code \notin {EXIT_SUCCESS, EXIT_CONFIG_ERROR,
                                  EXIT_FILE_NOT_FOUND, EXIT_UNSUPPORTED_KIND,
                                  EXIT_STEP_FAILED}
              /\ get_step_status(disk, StateKey(plan[res.idx], res.hidx))
                    = "running" )
    /\ [](  (resume /\ prev.code = EXIT_INTERRUPTED
                /\ Passed(prev.idx, prev.hidx))
            => SpawnedUnit(prev.idx, prev.hidx) )

(***************************************************************************)
(* C17: the result of the step loop tells the halt causes apart: a halt on *)
(* a missing or invalid step file gives the configuration-error or the     *)
(* file-not-found status, a halt on an unknown kind the unsupported-kind   *)
(* status, and a halt on an untolerated non-zero exit the step-failure     *)
(* status.                                                                 *)
(***************************************************************************)
C17_HaltCauses ==
    (pc = "idle" /\ res.cause \notin {"none", "interrupt"}) =>
        /\ res.cause \in {"invalid file", "file not found"}
              => res.code \in {EXIT_CONFIG_ERROR, EXIT_FILE_NOT_FOUND}
        /\ (res.cause = "build error" /\ UnknownKind(plan[res.idx]))
              => res.code = EXIT_UNSUPPORTED_KIND
        /\ res.cause = "exit" => res.code = EXIT_STEP_FAILED

(***************************************************************************)
(* executor.run_command: one call, the process it spawns, and the time     *)
(* that passes while it is blocked.                                        *)
(***************************************************************************)
\* timeout=None
NoTimeout == 0

\* the reserved code run_command returns after a timeout
EXIT_TIMEOUT == 124

\* how far the clock is followed
MaxClock == MaxTimeout + 2

\* a plan of one local command step
OneCommand ==
    PlanOf(<<MkStep("command", "fail", FALSE, Scalar("localhost"), "echo hi",
                    NoFile)>>)

InitRun ==
    /\ plan = OneCommand
    /\ disk = EmptyLedger
    /\ state = EmptyLedger
    /\ file = "missing"
    /\ meta = NoMeta
    /\ Idle0
    /\ NoAux

\* how many processes left behind by earlier calls are followed
MaxOrphans == 2

\* the processes of earlier calls of run_command that are still running
\* when the next call starts
Orphans(r) == r.orphans + (IF r.alive THEN 1 ELSE 0)

\* subprocess.Popen succeeded: the read loop over process.stdout starts
Popen(t) ==
    /\ rc.pc \in {"none", "done"}
    /\ Orphans(rc) <= MaxOrphans
    /\ rc' = [pc |-> "read", timeout |-> t, alive |-> TRUE, out |-> TRUE,
              clock |-> 0, t0 |-> 0, code |-> -1, ret |-> -1,
              orphans |-> Orphans(rc)]
    /\ UNCHANGED <<loopv, call, ret, peer, task>>

\* open() or Popen raised: `except Exception` returns 1
PopenFails(t) ==
    /\ rc.pc \in {"none", "done"}
    /\ rc' = [NoProc EXCEPT !.pc = "done", !.timeout = t, !.ret = 1,
                            !.orphans = Orphans(rc)]
    /\ UNCHANGED <<loopv, call, ret, peer, task>>

\* the process closes its output and keeps running
ChildClosesOutput ==
    /\ rc.pc \in {"read", "wait"}
    /\ rc.alive /\ rc.out
    /\ rc' = [rc EXCEPT !.out = FALSE]
    /\ UNCHANGED <<loopv, call, ret, peer, task>>

\* the process exits with code c
ChildExits(c) ==
    /\ rc.pc \in {"read", "wait"}
    /\ rc.alive
    /\ rc' = [rc EXCEPT !.alive = FALSE, !.out = FALSE, !.code = c]
    /\ UNCHANGED <<loopv, call, ret, peer, task>>

\* process.wait(timeout) is due to raise TimeoutExpired
WaitExpired ==
    /\ rc.pc = "wait"
    /\ rc.alive
    /\ rc.timeout # NoTimeout
    /\ rc.clock - rc.t0 >= rc.timeout

\* one unit of time passes while run_command is blocked
Tick ==
    /\ rc.pc \in {"read", "wait"}
    /\ rc.clock < MaxClock
    /\ ~WaitExpired
    /\ ~(rc.pc = "wait" /\ ~rc.alive)
    /\ rc' = [rc EXCEPT !.clock = @ + 1]
    /\ UNCHANGED <<loopv, call, ret, peer, task>>

\* `for line in process.stdout` ends at end of file; process.wait is called
ReadEOF ==
    /\ rc.pc = "read"
    /\ ~rc.out
    /\ rc' = [rc EXCEPT !.pc = "wait", !.t0 = rc.clock]
    /\ UNCHANGED <<loopv, call, ret, peer, task>>

\* process.wait returns the exit code
WaitReturns ==
    /\ rc.pc = "wait"
    /\ ~rc.alive
    /\ rc' = [rc EXCEPT !.pc = "done", !.ret = rc.code]
    /\ UNCHANGED <<loopv, call, ret, peer, task>>

\* except subprocess.TimeoutExpired: process.kill(); return 124
TimeoutExpired ==
    /\ WaitExpired
    /\ rc' = [rc EXCEPT !.pc = "done", !.alive = FALSE, !.out = FALSE,
                        !.ret = EXIT_TIMEOUT]
    /\ UNCHANGED <<loopv, call, ret, peer, task>>

NextRun ==
    \/ \E t \in 0..MaxTimeout : Popen(t)
    \/ \E t \in 0..MaxTimeout : PopenFails(t)
    \/ ChildClosesOutput
    \/ \E c \in {0, 1} : ChildExits(c)
    \/ Tick
    \/ ReadEOF
    \/ WaitReturns
    \/ TimeoutExpired

SpecRun == InitRun /\ [][NextRun]_vars

(***************************************************************************)
(* C15: for a step with timeout T, run_command does not stay blocked       *)
(* beyond T: a process still running when T expires is killed and          *)
(* run_command returns 124, also when the process never closes its output  *)
(* and never exits.                                                        *)
(***************************************************************************)
C15_TimeoutBounds ==
    /\ (rc.pc \in {"read", "wait"} /\ rc.timeout # NoTimeout)
          => rc.clock <= rc.timeout
    /\ (rc.pc = "done" /\ rc.timeout # NoTimeout /\ rc.ret # EXIT_TIMEOUT)
          => rc.clock <= rc.timeout

(***************************************************************************)
(* Runs that start on a state file that is missing or does not parse.      *)
(***************************************************************************)
\* step shapes of the plans of these runs
LoadShapes ==
    { MkStep(Absent, "fail", FALSE, Scalar("localhost"), "echo hi", NoFile),
      MkStep("command", "fail", FALSE, Scalar("localhost"), "echo hi", NoFile),
      MkStep("command", "fail", FALSE, Scalar("localhost"), Absent, NoFile),
      MkStep("command", "continue", TRUE, List(<<"h", "g">>), "echo hi",
             NoFile),
      MkStep("command", "fail", FALSE, Scalar("x"), "echo hi", NoFile),
      MkStep("bash", "fail", FALSE, Scalar("localhost"), Absent, NoFile),
      MkStep("bash", "fail", FALSE, Scalar("localhost"), Absent, FileOutside),
      MkStep("bash", "fail", FALSE, Scalar("localhost"), Absent, FileGone),
      MkStep("bogus", "fail", FALSE, Scalar("localhost"), Absent, FileRun) }

OkRecord == [status |-> "ok", kind |-> "command", reason |-> Absent]

\* the metadata an earlier run of another plan had written
OldMeta == Meta("prod", "basekit", "upgrade")

\* the steps an earlier run had written (before the file was damaged)
PriorLedgers ==
    { EmptyLedger,
      Put(EmptyLedger, "a", OkRecord),
      Put(Put(EmptyLedger, "a", OkRecord), "a_h", OkRecord) }

InitLoad ==
    /\ \E n \in 1..MaxSteps : \E p \in [1..n -> LoadShapes] : plan = PlanOf(p)
    /\ file \in {"missing", "corrupt", "ok"}
    /\ disk \in IF file = "missing" THEN {EmptyLedger} ELSE PriorLedgers
    /\ meta = IF file = "missing" THEN NoMeta ELSE OldMeta
    /\ state = EmptyLedger
    /\ Idle0
    /\ NoAux

SpecLoad == InitLoad /\ [][Next]_vars

\* the ledger keys of the units this run spawned a process for
SpawnedKeys ==
    { StateKey(plan[spawned[n][1]], spawned[n][2]) : n \in DOMAIN spawned }

(***************************************************************************)
(* C16: when the state file is missing or does not parse, the run starts   *)
(* with a fresh ledger with no steps and goes on as a first run instead of *)
(* ending with an error: the step loop is entered at step 1, a record is   *)
(* ok only if this run spawned its unit, and every valid single step the   *)
(* run gets past has a process (or its key is that of a spawned unit).     *)
(***************************************************************************)
C16_LoadFresh ==
    /\ [][(pc = "idle" /\ file # "ok") =>
             /\ state' = EmptyLedger
             /\ state0' = EmptyLedger
             /\ disk' = EmptyLedger /\ file' = "ok"
             /\ pc' = "step" /\ idx' = 1 /\ res'.code = -1]_vars
    /\ [](  loaded \in {"missing", "corrupt"} =>
              /\ state0 = EmptyLedger
              /\ \A k \in DOMAIN state :
                    is_completed(state, k) => k \in SpawnedKeys
              /\ \A j \in DOMAIN plan :
                    (Passed(j, 0) /\ Executable(plan[j])
                        /\ ~_should_iterate(plan[j]))
                    => \/ SpawnedUnit(j, 0)
                       \/ StepId(plan[j]) \in SpawnedKeys )

\* a run with resume on a damaged file that had step a as ok ran step a again
C16_Witness ==
    /\ loaded = "corrupt"
    /\ resume
    /\ prev.code = -1
    /\ Executable(plan[1])
    /\ SpawnedUnit(1, 0)
    /\ StepId(plan[1]) = "a"
    /\ is_completed(state, "a")
    /\ pc = "idle" /\ res.code = EXIT_SUCCESS

(***************************************************************************)
(* config.replace_placeholders.  A text is a sequence of characters; a     *)
(* name ("env", "prod", ...) stands for the characters of that name, which *)
(* hold no brace.                                                          *)
(***************************************************************************)
RECURSIVE str_replace(_, _, _)
\* str.replace(old, new): every non-overlapping occurrence, from the left
str_replace(t, old, new) ==
    IF Len(t) < Len(old) THEN t
    ELSE IF SubSeq(t, 1, Len(old)) = old
    THEN new \o str_replace(SubSeq(t, Len(old) + 1, Len(t)), old, new)
    ELSE <<Head(t)>> \o str_replace(Tail(t), old, new)

\* f"{{{key}}}"
Token(name) == <<"{", name, "}">>

RECURSIVE replace_group_vars(_, _)
\* the loop over group_vars.items(), in the order of the mapping
replace_group_vars(t, items) ==
    IF items = <<>> THEN t
    ELSE replace_group_vars(
            IF Head(items).scalar
            THEN str_replace(t, Token(Head(items).key), Head(items).value)
            ELSE t,
            Tail(items))

replace_placeholders(text, env_name, deployment_plan, deployment_type, group_vars) ==
    replace_group_vars(
        str_replace(
            str_replace(
                str_replace(text, Token("env"), env_name),
                Token("deployment"), deployment_plan),
            Token("deployment_type"), deployment_type),
        group_vars)

\* an entry of group_vars; scalar: str, int, float or bool
Var(k, v, sc) == [key |-> k, value |-> v, scalar |-> sc]

\* the characters of the texts explored
TextChars == {"{", "}", "env", "deployment", "k", "-"}

RECURSIVE SeqsUpTo(_, _)
\* the sequences over S of length at most n
SeqsUpTo(S, n) ==
    IF n = 0 THEN {<<>>}
    ELSE LET shorter == SeqsUpTo(S, n - 1)
         IN  shorter \cup { <<c>> \o t : c \in S, t \in { u \in shorter :
                                                          Len(u) = n - 1 } }

\* "{env}-{deployment_type}"
ExampleText == Token("env") \o <<"-">> \o Token("deployment_type")

Texts ==
    SeqsUpTo(TextChars, MaxText)
    \cup {ExampleText, <<"{">> \o Token("env") \o <<"}">>}

EnvNames == {<<"prod">>, Token("deployment"), <<"k">>}

GroupVars ==
    { <<>>,
      <<Var("k", <<"v">>, TRUE)>>,
      <<Var("k", <<"v">>, FALSE)>>,
      <<Var("k", Token("j"), TRUE), Var("j", <<"w">>, TRUE)>> }

InitRender ==
    /\ plan = OneCommand
    /\ disk = EmptyLedger
    /\ state = EmptyLedger
    /\ file = "missing"
    /\ meta = NoMeta
    /\ Idle0
    /\ rc = NoProc
    /\ \E t \in Texts, e \in EnvNames, gv \in GroupVars :
          call = [fn |-> "replace_placeholders", text |-> t, env_name |-> e,
                  deployment_plan |-> <<"default">>,
                  deployment_type |-> <<"basekit">>, group_vars |-> gv]
    /\ ret = <<>>

Render ==
    /\ call.fn = "replace_placeholders"
    /\ ret = <<>>
    /\ ret' = <<replace_placeholders(call.text, call.env_name,
                                     call.deployment_plan,
                                     call.deployment_type, call.group_vars)>>
    /\ UNCHANGED <<loopv, rc, call, peer, task>>

NextRender == Render

SpecRender == InitRender /\ [][NextRender]_vars

\* the tokens of a call and their values: the fixed ones, then the scalar
\* entries of vars
Substitutions(c) ==
    << <<Token("env"), c.env_name>>,
       <<Token("deployment"), c.deployment_plan>>,
       <<Token("deployment_type"), c.deployment_type>> >>
    \o [i \in DOMAIN SelectSeq(c.group_vars, LAMBDA v : v.scalar) |->
          LET v == SelectSeq(c.group_vars, LAMBDA w : w.scalar)[i]
          IN  <<Token(v.key), v.value>>]

RECURSIVE Substituted(_, _)
\* t with every occurrence of a token replaced by the token's value and all
\* other text left as it is
Substituted(t, subs) ==
    IF t = <<>> THEN <<>>
    ELSE LET hit == { i \in DOMAIN subs :
                        /\ Len(subs[i][1]) <= Len(t)
                        /\ SubSeq(t, 1, Len(subs[i][1])) = subs[i][1] }
         IN  IF hit = {} THEN <<Head(t)>> \o Substituted(Tail(t), subs)
             ELSE LET i == CHOOSE i \in hit : \A j \in hit : i <= j
                  IN  subs[i][2]
                      \o Substituted(SubSeq(t, Len(subs[i][1]) + 1, Len(t)),
                                     subs)

(***************************************************************************)
(* C20: replace_placeholders replaces every occurrence of {env},           *)
(* {deployment} and {deployment_type} by the environment name, the plan    *)
(* name and the deployment type, and every {key} of a scalar entry of vars *)
(* by its value, and leaves all other text unchanged; "{env}-{deployment_  *)
(* type}" with env prod, plan default, type basekit, no vars gives         *)
(* "prod-basekit".                                                         *)
(***************************************************************************)
C20_Rendering ==
    (call.fn = "replace_placeholders" /\ ret # <<>>) =>
        /\ ret[1] = Substituted(call.text, Substitutions(call))
        /\ (call.text = ExampleText /\ call.env_name = <<"prod">>
               /\ call.group_vars = <<>>)
              => ret[1] = <<"prod", "-", "basekit">>

\* the part of C20 that is the example of the spec
C20_Example ==
    (call.fn = "replace_placeholders" /\ ret # <<>>
        /\ call.text = ExampleText /\ call.env_name = <<"prod">>
        /\ call.group_vars = <<>>)
    => ret[1] = <<"prod", "-", "basekit">>

(***************************************************************************)
(* inventory.get_host_from_inventory over an inventory document.           *)
(***************************************************************************)
\* a mapping (dict) with no entry
NoVars == <<>>

\* dict.update: the entries of b are put over those of a
Update(a, b) ==
    [k \in (DOMAIN a) \cup (DOMAIN b) |-> IF k \in DOMAIN b THEN b[k] ELSE a[k]]

\* one entry of a hosts mapping: the attributes are a mapping, or null
Host(name, attrs) == [name |-> name, isdict |-> TRUE, attrs |-> attrs]
BareHost(name) == [name |-> name, isdict |-> FALSE, attrs |-> NoVars]

\* a group: its vars, its hosts mapping in document order (has_hosts tells
\* whether the key is there), and its child groups in document order
Group(vs, has_hosts, hosts, children) ==
    [vars |-> vs, has_hosts |-> has_hosts, hosts |-> hosts,
     children |-> children]
Child(name, group) == [name |-> name, group |-> group]

\* results of a lookup
Found(info) == [kind |-> "found", info |-> info, exc |-> "none"]
None == [kind |-> "none", info |-> NoVars, exc |-> "none"]
Raise(e) == [kind |-> "raise", info |-> NoVars, exc |-> e]

\* `if result:` -- a result that is not None and not an empty dict
Truthy(r) == r.kind = "found" /\ DOMAIN r.info # {}

Names(entries) == { entries[i].name : i \in DOMAIN entries }
Entry(entries, name) ==
    entries[CHOOSE i \in DOMAIN entries : entries[i].name = name]

RECURSIVE find_host(_, _, _)
RECURSIVE find_in_children(_, _, _)

\* the loop over data['children'].items(): the first truthy result
find_in_children(children, target, current_vars) ==
    IF children = <<>> THEN None
    ELSE LET r == find_host(Head(children).group, target, current_vars)
         IN  IF r.kind = "raise" \/ Truthy(r) THEN r
             ELSE find_in_children(Tail(children), target, current_vars)

find_host(data, target, parent_vars) ==
    LET current_vars == Update(parent_vars, data.vars)
    IN  IF data.has_hosts /\ target \in Names(data.hosts)
        THEN LET h == Entry(data.hosts, target)
             IN  Found(Update(IF h.isdict THEN h.attrs ELSE NoVars,
                              current_vars))
        ELSE IF target \in Names(data.children)
                /\ Entry(data.children, target).group.has_hosts
        THEN LET g == Entry(data.children, target).group
             IN  IF g.hosts = <<>> THEN Raise("IndexError")
                 ELSE IF ~Head(g.hosts).isdict THEN Raise("AttributeError")
                 ELSE Found(Update(Update(Head(g.hosts).attrs, g.vars),
                                   current_vars))
        ELSE find_in_children(data.children, target, current_vars)

\* inventory.get('all', {})
NoGroup == Group(NoVars, FALSE, <<>>, <<>>)

\* an inventory file: whether load_yaml_file reads it, and its `all` group
Inventory(loads, all) == [loads |-> loads, all |-> all]

\* os.getenv('USER', 'root')
getenv_USER(user) == Get(user, "root")

get_host_from_inventory(inventory, host_or_group, user) ==
    IF ~inventory.loads THEN Raise("InventoryError")
    ELSE IF host_or_group = "localhost"
    THEN Found([ansible_host |-> "localhost",
                ansible_user |-> getenv_USER(user)])
    ELSE LET host_info == find_host(inventory.all, host_or_group, NoVars)
         IN  IF host_info.kind = "raise" THEN host_info
             ELSE IF ~Truthy(host_info) THEN Raise("InventoryError")
             ELSE host_info

\* the inventories explored
Inventories ==
    { Inventory(FALSE, NoGroup),
      Inventory(TRUE, NoGroup),
      Inventory(TRUE,
         Group([ansible_user |-> "admin"], TRUE,
               <<Host("h", [ansible_host |-> "10.0.0.1"])>>, <<>>)),
      Inventory(TRUE,
         Group(NoVars, TRUE,
               <<Host("localhost", [ansible_host |-> "10.9.9.9",
                                    ansible_user |-> "admin"])>>, <<>>)),
      Inventory(TRUE,
         Group([ansible_user |-> "admin"], FALSE, <<>>,
               <<Child("grp",
                   Group([ansible_user |-> "ops"], TRUE,
                         <<Host("g", [ansible_host |-> "10.0.0.2"]),
                           Host("h", [ansible_host |-> "10.0.0.1"])>>,
                         <<>>))>>)),
      Inventory(TRUE,
         Group(NoVars, FALSE, <<>>,
               <<Child("localhost",
                   Group(NoVars, TRUE,
                         <<Host("g", [ansible_host |-> "10.0.0.2"])>>,
                         <<>>))>>)),
      Inventory(TRUE,
         Group(NoVars, TRUE, <<BareHost("h")>>,
               <<Child("grp", Group(NoVars, TRUE, <<BareHost("g")>>, <<>>))>>)),
      Inventory(TRUE,
         Group(NoVars, FALSE, <<>>,
               <<Child("grp", Group(NoVars, TRUE, <<>>, <<>>))>>)) }

Targets == {"localhost", "h", "g", "grp", "x"}

InitHost ==
    /\ plan = OneCommand
    /\ disk = EmptyLedger
    /\ state = EmptyLedger
    /\ file = "missing"
    /\ meta = NoMeta
    /\ Idle0
    /\ rc = NoProc
    /\ \E inv \in Inventories, t \in Targets, u \in {Absent, "op"} :
          call = [fn |-> "get_host_from_inventory", inventory |-> inv,
                  host_or_group |-> t, user |-> u]
    /\ ret = <<>>

Resolve ==
    /\ call.fn = "get_host_from_inventory"
    /\ ret = <<>>
    /\ ret' = <<get_host_from_inventory(call.inventory, call.host_or_group,
                                        call.user)>>
    /\ UNCHANGED <<loopv, rc, call, peer, task>>

NextHost == Resolve

SpecHost == InitHost /\ [][NextHost]_vars

(***************************************************************************)
(* C19: resolving the name localhost returns the fixed local descriptor    *)
(* for every inventory, whatever the inventory holds (also a host named    *)
(* localhost), and the call does not fail because of the inventory.        *)
(***************************************************************************)
C19_LocalhostFixed ==
    (call.fn = "get_host_from_inventory" /\ ret # <<>>
        /\ call.host_or_group = "localhost")
    => ret[1] = Found([ansible_host |-> "localhost",
                       ansible_user |-> getenv_USER(call.user)])

(***************************************************************************)
(* executor.build_command for kind command, and build_ssh_command.  An     *)
(* argument vector is a sequence of texts.                                 *)
(***************************************************************************)
\* host_info.get(k) is truthy
Has(host_info, k) == k \in DOMAIN host_info /\ host_info[k] # ""

\* host_info.get(k, default)
GetVar(host_info, k, default) ==
    IF k \in DOMAIN host_info THEN host_info[k] ELSE default

\* a build_ssh_command that passes the port whenever the inventory names one
build_ssh_command_any_port(host_info, remote_command) ==
    (IF Has(host_info, "ansible_ssh_pass")
     THEN << <<"sshpass">>, <<"-p">>, <<host_info["ansible_ssh_pass"]>> >>
     ELSE <<>>)
    \o << <<"ssh">>,
          <<"-o">>, <<"StrictHostKeyChecking=no">>,
          <<"-o">>, <<"UserKnownHostsFile=/dev/null">>,
          <<"-o">>, <<"ConnectTimeout=30">>,
          <<"-tt">> >>
    \o (IF Has(host_info, "ansible_ssh_private_key_file")
        THEN << <<"-i">>, <<host_info["ansible_ssh_private_key_file"]>> >>
        ELSE <<>>)
    \o (IF "ansible_port" \in DOMAIN host_info
        THEN << <<"-p">>, <<host_info["ansible_port"]>> >>
        ELSE <<>>)
    \o << <<GetVar(host_info, "ansible_user", "root"), "@",
            GetVar(host_info, "ansible_host", "localhost")>>,
          remote_command >>

build_ssh_command(host_info, remote_command) ==
    (IF Has(host_info, "ansible_ssh_pass")
     THEN << <<"sshpass">>, <<"-p">>, <<host_info["ansible_ssh_pass"]>> >>
     ELSE <<>>)
    \o << <<"ssh">>,
          <<"-o">>, <<"StrictHostKeyChecking=no">>,
          <<"-o">>, <<"UserKnownHostsFile=/dev/null">>,
          <<"-o">>, <<"ConnectTimeout=30">>,
          <<"-tt">> >>
    \o (IF Has(host_info, "ansible_ssh_private_key_file")
        THEN << <<"-i">>, <<host_info["ansible_ssh_private_key_file"]>> >>
        ELSE <<>>)
    \o (IF GetVar(host_info, "ansible_port", "22") # "22"
        THEN << <<"-p">>, <<host_info["ansible_port"]>> >>
        ELSE <<>>)
    \o << <<GetVar(host_info, "ansible_user", "root"), "@",
            GetVar(host_info, "ansible_host", "localhost")>>,
          remote_command >>

\* results of build_command
Argv(v) == [kind |-> "argv", argv |-> v, exc |-> "none"]
Raised(e) == [kind |-> "raise", argv |-> <<>>, exc |-> e]

\* a build_command that resolves every target, localhost too, in the
\* inventory
build_command_argv_resolving(s, ctx) ==
    LET rendered_command ==
            replace_placeholders(s.command, ctx.env_name,
                                 ctx.deployment_plan, ctx.deployment_type,
                                 ctx.group_vars)
        target_host == s.hosts.names[1]
        host_info ==
            get_host_from_inventory(ctx.inventory, target_host, ctx.user)
    IN  IF Lower(s.kind) # "command" THEN Raised("not modelled")
        ELSE IF s.command = <<>> THEN Raised("ExecutionError")
        ELSE IF host_info.kind = "raise" THEN Raised(host_info.exc)
        ELSE IF target_host = "localhost"
        THEN Argv(<< <<"/bin/bash">>, <<"-c">>, rendered_command >>)
        ELSE Argv(build_ssh_command(host_info.info, rendered_command))

\* build_command, the branch of kind command; the command field of the
\* step s is a text, <<>> when it is missing or empty (`not command`)
build_command_argv(s, ctx) ==
    LET rendered_command ==
            replace_placeholders(s.command, ctx.env_name,
                                 ctx.deployment_plan, ctx.deployment_type,
                                 ctx.group_vars)
        target_host == s.hosts.names[1]
        host_info ==
            get_host_from_inventory(ctx.inventory, target_host, ctx.user)
    IN  IF Lower(s.kind) # "command" THEN Raised("not modelled")
        ELSE IF s.command = <<>> THEN Raised("ExecutionError")
        ELSE IF target_host = "localhost"
        THEN Argv(<< <<"/bin/bash">>, <<"-c">>, rendered_command >>)
        ELSE IF host_info.kind = "raise" THEN Raised(host_info.exc)
        ELSE Argv(build_ssh_command(host_info.info, rendered_command))

\* the command texts explored
CommandTexts ==
    { <<>>, <<"echo hi">>, <<"echo ">> \o Token("env"),
      <<"echo ">> \o Token("k") }

\* the hosts values explored
HostsValues ==
    { Scalar("localhost"), List(<<"localhost", "h">>), Scalar("h"),
      List(<<"h", "localhost">>), Scalar("x") }

\* the inventories explored: unreadable, and one that knows host h
BuildInventories ==
    { Inventory(FALSE, NoGroup),
      Inventory(TRUE,
         Group([ansible_user |-> "admin", ansible_ssh_pass |-> "pw"], TRUE,
               <<Host("h", [ansible_host |-> "10.0.0.1",
                            ansible_port |-> "2222"]),
                 Host("localhost", [ansible_host |-> "10.9.9.9"])>>,
               <<>>)) }

InitBuild ==
    /\ plan = OneCommand
    /\ disk = EmptyLedger
    /\ state = EmptyLedger
    /\ file = "missing"
    /\ meta = NoMeta
    /\ Idle0
    /\ rc = NoProc
    /\ \E k \in {"command", "Command"}, hs \in HostsValues,
          c \in CommandTexts, inv \in BuildInventories,
          gv \in {<<>>, <<Var("k", <<"v">>, TRUE)>>} :
          call = [fn |-> "build_command",
                  step |-> [kind |-> k, hosts |-> hs, command |-> c],
                  ctx |-> [env_name |-> <<"prod">>,
                           deployment_plan |-> <<"default">>,
                           deployment_type |-> <<"basekit">>,
                           group_vars |-> gv, inventory |-> inv,
                           user |-> Absent]]
    /\ ret = <<>>

Build ==
    /\ call.fn = "build_command"
    /\ ret = <<>>
    /\ ret' = <<build_command_argv(call.step, call.ctx)>>
    /\ UNCHANGED <<loopv, rc, call, peer, task>>

NextBuild == Build

SpecBuild == InitBuild /\ [][NextBuild]_vars

\* build_command returned for a command step whose target is localhost
BuiltLocal ==
    /\ call.fn = "build_command"
    /\ ret # <<>>
    /\ Lower(call.step.kind) = "command"
    /\ call.step.hosts.names[1] = "localhost"

\* ["/bin/bash", "-c", rendered command text]
LocalVector(c) ==
    << <<"/bin/bash">>, <<"-c">>,
       replace_placeholders(c.step.command, c.ctx.env_name,
                            c.ctx.deployment_plan, c.ctx.deployment_type,
                            c.ctx.group_vars) >>

(***************************************************************************)
(* C18: for every step of kind command whose target host is localhost and  *)
(* every command text, build_command returns exactly the three-element     *)
(* vector ["/bin/bash", "-c", rendered command text], whatever the         *)
(* inventory.                                                              *)
(***************************************************************************)
C18_Original ==
    BuiltLocal => ret[1] = Argv(LocalVector(call))

\* C18 as amended: the same for every command text that is not empty; for
\* an empty or missing command text build_command raises ExecutionError.
C18_LocalCommand ==
    BuiltLocal =>
        IF call.step.command # <<>>
        THEN /\ ret[1] = Argv(LocalVector(call))
             /\ Len(ret[1].argv) = 3
        ELSE ret[1] = Raised("ExecutionError")

\* a command with a placeholder on a list of hosts led by localhost, with an
\* inventory that cannot be read, gave the local shell vector
C18_Witness ==
    /\ BuiltLocal
    /\ call.step.command = <<"echo ">> \o Token("env")
    /\ call.step.hosts = List(<<"localhost", "h">>)
    /\ ~call.ctx.inventory.loads
    /\ ret[1] = Argv(<< <<"/bin/bash">>, <<"-c">>, <<"echo ", "prod">> >>)

FaultPlans ==
    { PlanOf(p) : p \in { q \in [1..2 -> LoadShapes] :
                            \/ q[1].kind = Absent
                            \/ /\ q[1].kind = "command"
                               /\ q[1].command # Absent
                               /\ q[1].hosts # Scalar("x") } }

InitFault ==
    /\ plan \in FaultPlans
    /\ disk = EmptyLedger
    /\ state = EmptyLedger
    /\ file = "missing"
    /\ meta = NoMeta
    /\ Idle0
    /\ NoAux

\* the storage starts to refuse writes (full, read-only, no permission)
StorageFails ==
    /\ writable
    /\ writable' = FALSE
    /\ UNCHANGED <<plan, disk, state, resume, pc, idx, hidx, spawned, exits,
                   state0, loaded, res, prev, file, meta, aux>>

StorageRecovers ==
    /\ ~writable
    /\ writable' = TRUE
    /\ UNCHANGED <<plan, disk, state, resume, pc, idx, hidx, spawned, exits,
                   state0, loaded, res, prev, file, meta, aux>>

NextFault ==
    \/ Next
    \/ StorageFails
    \/ StorageRecovers

SpecFault == InitFault /\ [][NextFault]_vars

\* a step of the run in which a mark, or initialize, returned
MarkReturned ==
    \/ pc = "idle" /\ pc' = "step"
    \/ pc # "idle" /\ state' # state

(***************************************************************************)
(* C22: after each of mark_running, mark_success, mark_failed and          *)
(* mark_skipped returns, the ledger on disk equals the ledger in memory,   *)
(* also when the write to the state file fails.                            *)
(***************************************************************************)
C22_MarksPersist ==
    [][MarkReturned => (file' = "ok" /\ disk' = state')]_vars

\* a run starts on a state file that parses
StartsOnLedger ==
    /\ pc = "idle"
    /\ pc' = "step"
    /\ file = "ok"

(***************************************************************************)
(* C23: initialize changes only the metadata env, deployment_type and      *)
(* deployment_plan: every record loaded from an existing state file is     *)
(* left as it is, and starting a run, with or without resume, never        *)
(* empties the ledger.                                                     *)
(***************************************************************************)
C23_InitializeKeepsSteps ==
    /\ [][StartsOnLedger =>
             /\ state' = disk
             /\ disk' = disk
             /\ file' = "ok"
             /\ meta' = RunMeta]_vars
    /\ [](  loaded = "ok" =>
              /\ DOMAIN state0 \subseteq DOMAIN disk
              /\ DOMAIN state0 \subseteq DOMAIN state )

\* a first run with resume started on a ledger of an earlier plan with two
\* ok records: both are there, the metadata are those of this run
C23_Witness ==
    /\ loaded = "ok"
    /\ prev.code = -1
    /\ resume
    /\ pc = "step" /\ idx = 1
    /\ DOMAIN state0 = {"a", "a_h"}
    /\ state = state0 /\ disk = state0
    /\ AllOk(disk)
    /\ meta = RunMeta /\ meta # OldMeta

\* the record of k reached ok, failed or skipped during this run
Settled(k) ==
    /\ get_step_status(state, k) \in {"ok", "failed", "skipped"}
    /\ \/ k \in SpawnedKeys
       \/ k \notin DOMAIN state0
       \/ state[k] # state0[k]

(***************************************************************************)
(* C26: within one run a record goes pending -> running -> ok or failed,   *)
(* or pending -> skipped: it is set to ok or failed only while it is       *)
(* running and only by the unit that set it running, and once it is ok,    *)
(* failed or skipped in a run it is not modified again in that run.        *)
(***************************************************************************)
C26_RecordLifecycle ==
    [][(pc # "idle") =>
          \A k \in Changed(state, state') :
             /\ get_step_status(state', k) \in {"ok", "failed"}
                   => /\ pc = "proc" /\ k = key
                      /\ get_step_status(state, k) = "running"
             /\ ~Settled(k)]_vars

(***************************************************************************)
(* run_command with the exceptions that leave the try block while the      *)
(* process runs.                                                           *)
(***************************************************************************)
\* the read loop raises (text=True: UnicodeDecodeError on output that is
\* not UTF-8; print or log.write fail): `except Exception` returns 1, the
\* process is neither killed nor waited for
ReadFails ==
    /\ rc.pc = "read"
    /\ rc.alive /\ rc.out
    /\ rc' = [rc EXCEPT !.pc = "done", !.ret = 1]
    /\ UNCHANGED <<loopv, call, ret, peer, task>>

\* KeyboardInterrupt while run_command is blocked: no handler of
\* run_command catches it, main returns 130; nothing signals the process,
\* which got the signal itself only if it was sent to the whole foreground
\* process group
KeyboardInterrupt ==
    /\ rc.pc \in {"read", "wait"}
    /\ \E a \in {rc.alive, FALSE} :
          rc' = [rc EXCEPT !.pc = "interrupted", !.alive = a,
                           !.out = rc.out /\ a]
    /\ UNCHANGED <<loopv, call, ret, peer, task>>

\* the process that run_command left running exits on its own
LeftoverExits ==
    /\ rc.pc \in {"done", "interrupted"}
    /\ rc.alive
    /\ rc' = [rc EXCEPT !.alive = FALSE, !.out = FALSE]
    /\ UNCHANGED <<loopv, call, ret, peer, task>>

\* a process left behind by an earlier call exits
OrphanExits ==
    /\ rc.orphans > 0
    /\ rc' = [rc EXCEPT !.orphans = @ - 1]
    /\ UNCHANGED <<loopv, call, ret, peer, task>>

NextProc ==
    \/ NextRun
    \/ ReadFails
    \/ KeyboardInterrupt
    \/ LeftoverExits
    \/ OrphanExits

SpecProc == InitRun /\ [][NextProc]_vars

(***************************************************************************)
(* C24: an operator interrupt during a unit aborts the process in flight:  *)
(* in every state after the run ended as interrupted, the process spawned  *)
(* for the unit is no longer running.                                      *)
(***************************************************************************)
C24_InterruptAborts ==
    rc.pc = "interrupted" => ~rc.alive

(***************************************************************************)
(* C25: at most one external process is alive at any time: a process is    *)
(* spawned only after the process of the previous unit has terminated,     *)
(* also after a timeout and after an error of run_command.                 *)
(***************************************************************************)
C25_OneProcess ==
    rc.orphans + (IF rc.alive THEN 1 ELSE 0) <= 1

(***************************************************************************)
(* executor.build_ssh_command over resolved host infos.  A port is written *)
(* as its decimal text, str(port); the default 22 is "22".                 *)
(***************************************************************************)
\* a host info with or without the variable k
Opt(k, v) == IF v = Absent THEN NoVars ELSE [x \in {k} |-> v]

HostInfos ==
    { Opt("ansible_ssh_pass", p) @@ Opt("ansible_ssh_private_key_file", f)
        @@ Opt("ansible_port", n) @@ Opt("ansible_user", u)
        @@ Opt("ansible_host", h) :
        p \in {Absent, "", "pw", "-i"}, f \in {Absent, "", "/k", "-p"},
        n \in {Absent, "22", "2222"}, u \in {Absent, "admin"},
        h \in {Absent, "10.0.0.1"} }

RemoteCommands == { <<"l", "s">>, <<"-p">>, <<"-i">> }

InitSsh ==
    /\ plan = OneCommand
    /\ disk = EmptyLedger
    /\ state = EmptyLedger
    /\ file = "missing"
    /\ meta = NoMeta
    /\ Idle0
    /\ rc = NoProc
    /\ \E hi \in HostInfos, c \in RemoteCommands :
          call = [fn |-> "build_ssh_command", host_info |-> hi,
                  remote_command |-> c]
    /\ ret = <<>>

BuildSsh ==
    /\ call.fn = "build_ssh_command"
    /\ ret = <<>>
    /\ ret' = <<build_ssh_command(call.host_info, call.remote_command)>>
    /\ UNCHANGED <<loopv, rc, call, peer, task>>

NextSsh == BuildSsh

SpecSsh == InitSsh /\ [][NextSsh]_vars

\* build_ssh_command returned
BuiltSsh == call.fn = "build_ssh_command" /\ ret # <<>>

\* the non-interactive options every ssh invocation carries
SshOptions ==
    << <<"-o">>, <<"StrictHostKeyChecking=no">>,
       <<"-o">>, <<"UserKnownHostsFile=/dev/null">>,
       <<"-o">>, <<"ConnectTimeout=30">>, <<"-tt">> >>

(***************************************************************************)
(* C27: build_ssh_command returns a vector that starts with sshpass -p     *)
(* password iff a password is present, whose ssh arguments hold -i path    *)
(* iff a private key path is present and -p port iff the port differs from *)
(* 22, and whose last two elements are user@host and the literal remote    *)
(* command, in that order.                                                 *)
(***************************************************************************)
C27_SshVector ==
    BuiltSsh =>
        LET v == ret[1]
            h == call.host_info
            n == Len(v)
            pass == Has(h, "ansible_ssh_pass")
            keyfile == Has(h, "ansible_ssh_private_key_file")
            port == GetVar(h, "ansible_port", "22")
            ssh == IF pass THEN 4 ELSE 1
            opt == ssh + Len(SshOptions) + 1
            flags == n - 2 - (opt - 1)
        IN  /\ n >= opt + 1
            /\ (v[1] = <<"sshpass">>) <=> pass
            /\ pass => (v[2] = <<"-p">> /\ v[3] = <<h["ansible_ssh_pass"]>>)
            /\ v[ssh] = <<"ssh">>
            /\ SubSeq(v, ssh + 1, opt - 1) = SshOptions
            /\ flags = (IF keyfile THEN 2 ELSE 0)
                         + (IF port # "22" THEN 2 ELSE 0)
            /\ keyfile =>
                  /\ v[opt] = <<"-i">>
                  /\ v[opt + 1] = <<h["ansible_ssh_private_key_file"]>>
            /\ port # "22" =>
                  /\ v[n - 3] = <<"-p">>
                  /\ v[n - 2] = <<port>>
            /\ v[n - 1] = <<GetVar(h, "ansible_user", "root"), "@",
                            GetVar(h, "ansible_host", "localhost")>>
            /\ v[n] = call.remote_command

\* password, key and port 2222 are all present: 17 elements, the key at
\* 12 and 13, the port at 14 and 15
C27_Witness ==
    /\ BuiltSsh
    /\ Has(call.host_info, "ansible_ssh_pass")
    /\ Has(call.host_info, "ansible_ssh_private_key_file")
    /\ GetVar(call.host_info, "ansible_port", "22") = "2222"
    /\ Len(ret[1]) = 17
    /\ ret[1][12] = <<"-i">>
    /\ ret[1][14] = <<"-p">>
    /\ ret[1][15] = <<"2222">>

(***************************************************************************)
(* Host resolution and the groups on the path to the match.                *)
(***************************************************************************)
RECURSIVE PathTo(_, _, _)
RECURSIVE PathInChildren(_, _, _)

\* the vars of the groups from `all` down to the group in which the name
\* is matched, outermost first; <<>> if nothing matches
PathTo(data, target, above) ==
    LET here == Append(above, data.vars)
    IN  IF data.has_hosts /\ target \in Names(data.hosts) THEN here
        ELSE IF target \in Names(data.children)
                /\ Entry(data.children, target).group.has_hosts
        THEN Append(here, Entry(data.children, target).group.vars)
        ELSE PathInChildren(data.children, target, here)

PathInChildren(children, target, above) ==
    IF children = <<>> THEN <<>>
    ELSE LET p == PathTo(Head(children).group, target, above)
         IN  IF p # <<>> THEN p
             ELSE PathInChildren(Tail(children), target, above)

\* the innermost group of the path that defines variable k (0: none)
Innermost(path, k) ==
    IF \E i \in DOMAIN path : k \in DOMAIN path[i]
    THEN CHOOSE i \in DOMAIN path :
            /\ k \in DOMAIN path[i]
            /\ \A j \in DOMAIN path : k \in DOMAIN path[j] => j <= i
    ELSE 0

\* get_host_from_inventory returned a connection info for a name of the
\* inventory
Resolved ==
    /\ call.fn = "get_host_from_inventory"
    /\ ret # <<>>
    /\ call.host_or_group # "localhost"
    /\ ret[1].kind = "found"

(***************************************************************************)
(* C28: when an ancestor group and a descendant group on the path to the   *)
(* match define the same variable, the resolved connection info carries    *)
(* the descendant's value, for a host match and for a group-name match.    *)
(***************************************************************************)
C28_ChildOverrides ==
    Resolved =>
        LET path == PathTo(call.inventory.all, call.host_or_group, <<>>)
        IN  \A i \in DOMAIN path : \A k \in DOMAIN path[i] :
               ret[1].info[k] = path[Innermost(path, k)][k]

\* the name is a key of a hosts mapping, or the name of a group with hosts,
\* somewhere under all
Present(inventory, name) == PathTo(inventory.all, name, <<>>) # <<>>

(***************************************************************************)
(* C29: for a name other than localhost, get_host_from_inventory fails     *)
(* with InventoryError iff the name is neither a key of a hosts mapping    *)
(* nor the name of a group with hosts anywhere under all; every host that  *)
(* is present is resolved, whatever attributes it has.                     *)
(***************************************************************************)
C29_NotFoundIffAbsent ==
    (call.fn = "get_host_from_inventory" /\ ret # <<>>
        /\ call.host_or_group # "localhost" /\ call.inventory.loads)
    => /\ (ret[1] = Raise("InventoryError"))
             <=> ~Present(call.inventory, call.host_or_group)
       /\ Present(call.inventory, call.host_or_group)
             => ret[1].kind = "found"

(***************************************************************************)
(* Rendering as a single pass.                                             *)
(***************************************************************************)
\* the entries of a mapping in the opposite order
Reverse(items) == [i \in DOMAIN items |-> items[Len(items) + 1 - i]]

\* replace_placeholders returned
Rendered == call.fn = "replace_placeholders" /\ ret # <<>>

(***************************************************************************)
(* C30: rendering is a single pass: text brought in by the value of one    *)
(* token is not itself substituted, so a text that is one token renders to *)
(* that token's value, also when the value holds another token, and the    *)
(* result does not depend on the order in which the keys of vars are       *)
(* processed.                                                              *)
(***************************************************************************)
C30_SinglePass ==
    Rendered =>
        LET subs == Substitutions(call)
        IN  /\ \A i \in DOMAIN subs :
                  call.text = subs[i][1] => ret[1] = subs[i][2]
            /\ ret[1] = replace_placeholders(call.text, call.env_name,
                                             call.deployment_plan,
                                             call.deployment_type,
                                             Reverse(call.group_vars))

\* the run ended at a unit whose host or group is not in the inventory
EndedHostNotFound == pc = "idle" /\ res.cause = "host not found"

(***************************************************************************)
(* C32: when a remote command step names a host or group that is not in    *)
(* the inventory, the run halts regardless of on_failure without spawning  *)
(* a process, and the ledger then holds for the unit's key a record with a *)
(* terminal status written by this run (not absent, not a stale record of  *)
(* an earlier run).                                                        *)
(***************************************************************************)
C32_HostNotFoundRecorded ==
    EndedHostNotFound =>
        LET k == StateKey(plan[res.idx], res.hidx)
        IN  /\ res.code = EXIT_STEP_FAILED
            /\ ~SpawnedUnit(res.idx, res.hidx)
            /\ get_step_status(disk, k) \in {"ok", "failed", "skipped"}
            /\ k \in DOMAIN state0 => disk[k] # state0[k]

\* the execution units of the plan: (step, host index), host index 0 for a
\* single execution
Units == UNION { {j} \X UnitsOf(j) : j \in DOMAIN plan }

\* the ledger key written for unit u
KeyOfUnit(u) == StateKey(plan[u[1]], u[2])

(***************************************************************************)
(* C33: ledger keys identify execution units: two different units of a     *)
(* plan never map to the same ledger key, the units a run has spawned have *)
(* pairwise different keys, and the key is_completed reads for a step is   *)
(* the key of no unit of another step.                                     *)
(***************************************************************************)
C33_KeysIdentifyUnits ==
    /\ \A u, v \in Units : u # v => KeyOfUnit(u) # KeyOfUnit(v)
    /\ \A n, m \in DOMAIN spawned :
          spawned[n] # spawned[m] => KeyOfUnit(spawned[n]) # KeyOfUnit(spawned[m])
    /\ \A j \in DOMAIN plan : \A u \in Units :
          u[1] # j => KeyOfUnit(u) # StepId(plan[j])

\* step j is a command step on a list of hosts that does not iterate
SingleList(j) ==
    /\ Lower(KindOf(plan[j])) = "command"
    /\ plan[j].hosts.isList
    /\ ~plan[j].iterate \/ Len(plan[j].hosts.names) = 1

\* a context whose inventory knows the hosts h and g under different
\* addresses
ListCtx ==
    [env_name |-> <<"prod">>, deployment_plan |-> <<"default">>,
     deployment_type |-> <<"basekit">>, group_vars |-> <<>>, user |-> Absent,
     inventory |->
        Inventory(TRUE,
           Group(NoVars, TRUE,
                 <<Host("h", [ansible_host |-> "10.0.0.1"]),
                   Host("g", [ansible_host |-> "10.0.0.2"])>>, <<>>))]

\* the vector build_command returns for the unit of step j
VectorOf(j) ==
    build_command_argv([kind |-> plan[j].kind, hosts |-> plan[j].hosts,
                        command |-> <<"echo hi">>], ListCtx)

\* the ssh vector that runs the command on host n only
VectorTo(n) ==
    Argv(build_ssh_command(
            get_host_from_inventory(ListCtx.inventory, n, Absent).info,
            <<"echo hi">>))

SkipsCompleted ==
    /\ pc = "step"
    /\ KindOf(step) # ""
    /\ resume /\ is_completed(state, StepId(step))

(***************************************************************************)
(* C35: in a run with resume, a step skipped because its record is ok      *)
(* leaves the ledger unchanged, in memory and on disk: no record is        *)
(* created, overwritten or persisted again, and the record of the step     *)
(* stays as it was.                                                        *)
(***************************************************************************)
C35_SkipLeavesLedger ==
    [][SkipsCompleted =>
          /\ state' = state
          /\ disk' = disk
          /\ file' = file
          /\ meta' = meta
          /\ spawned' = spawned
          /\ get_step_status(state', StepId(step)) = "ok"]_vars

\* a run with resume skipped step 1, whose record the earlier run left ok,
\* and is at step 2 with the ledger it loaded
C35_Witness ==
    /\ resume
    /\ pc = "step" /\ idx = 2
    /\ KindOf(plan[1]) # ""
    /\ is_completed(state0, StepId(plan[1]))
    /\ ~SpawnedUnit(1, 0)
    /\ state = state0
    /\ disk = state0

(***************************************************************************)
(* run_task.py: one invocation runs one task, or answers --resume.  The    *)
(* state file holds the status of every task started and last_run.         *)
(***************************************************************************)
TaskIds == {"t1", "t2", "t3"}

\* self.state["tasks"].get(task_id, {}).get("status")
TaskStatus(t, id) == IF id \in DOMAIN t.tasks THEN t.tasks[id] ELSE Absent

\* run_task.StateManager.is_completed
task_is_completed(t, id) == TaskStatus(t, id) = "completed"

\* run_task.StateManager.mark_started
mark_started(t, id) ==
    [t EXCEPT !.tasks = Put(t.tasks, id, "running"), !.last_run = id]

\* run_task.StateManager.mark_completed
mark_completed(t, id) == [t EXCEPT !.tasks = Put(t.tasks, id, "completed")]

\* run_task.StateManager.mark_failed
task_mark_failed(t, id) == [t EXCEPT !.tasks = Put(t.tasks, id, "failed")]

\* run_task.StateManager.get_last_incomplete_task
get_last_incomplete_task(t) == t.last_run

InitTask ==
    /\ plan = OneCommand
    /\ disk = EmptyLedger
    /\ state = EmptyLedger
    /\ file = "missing"
    /\ meta = NoMeta
    /\ Idle0
    /\ rc = NoProc
    /\ call = NoCall
    /\ ret = <<>>

\* main without --resume, for a task that is already completed: return 0
TaskAlreadyCompleted(id) ==
    /\ task.pc = "idle"
    /\ task_is_completed(task, id)
    /\ task' = [task EXCEPT !.op = "task", !.cur = id, !.ret = 0]
    /\ UNCHANGED <<loopv, rc, call, ret, peer>>

\* main without --resume: mark_started, then executor.execute runs
TaskStarts(id) ==
    /\ task.pc = "idle"
    /\ ~task_is_completed(task, id)
    /\ task' = [mark_started(task, id) EXCEPT !.pc = "running", !.op = "task",
                                              !.cur = id, !.ret = -1]
    /\ UNCHANGED <<loopv, rc, call, ret, peer>>

\* executor.execute returned: mark_completed, return 0
TaskSucceeds ==
    /\ task.pc = "running"
    /\ task' = [mark_completed(task, task.cur) EXCEPT !.pc = "idle", !.ret = 0]
    /\ UNCHANGED <<loopv, rc, call, ret, peer>>

\* executor.execute raised (CalledProcessError, ValueError for an unknown
\* kind): mark_failed, return 1
TaskFails ==
    /\ task.pc = "running"
    /\ task' = [task_mark_failed(task, task.cur) EXCEPT !.pc = "idle",
                                                        !.ret = 1]
    /\ UNCHANGED <<loopv, rc, call, ret, peer>>

\* the invocation is interrupted or killed while the task runs:
\* `except Exception` does not apply, the status stays running
TaskInterrupted ==
    /\ task.pc = "running"
    /\ task' = [task EXCEPT !.pc = "idle", !.ret = EXIT_INTERRUPTED]
    /\ UNCHANGED <<loopv, rc, call, ret, peer>>

\* main with --resume: 0 if get_last_incomplete_task returns nothing, else 1
TaskResume ==
    /\ task.pc = "idle"
    /\ task' = [task EXCEPT
                  !.op = "resume", !.cur = Absent,
                  !.ret = IF get_last_incomplete_task(task) = Absent
                          THEN 0 ELSE 1]
    /\ UNCHANGED <<loopv, rc, call, ret, peer>>

NextTask ==
    \/ \E id \in TaskIds : TaskAlreadyCompleted(id)
    \/ \E id \in TaskIds : TaskStarts(id)
    \/ TaskSucceeds
    \/ TaskFails
    \/ TaskInterrupted
    \/ TaskResume

SpecTask == InitTask /\ [][NextTask]_vars

\* a --resume invocation has returned
Resumed == task.pc = "idle" /\ task.op = "resume"

(***************************************************************************)
(* C38: get_last_incomplete_task returns a task only if that task was not  *)
(* completed: when the task started last finished as completed, it returns *)
(* nothing and --resume returns 0; --resume returns 1 only when a started  *)
(* task is still running or failed.                                        *)
(***************************************************************************)
C38_ResumeReportsIncomplete ==
    /\ get_last_incomplete_task(task) # Absent
          => ~task_is_completed(task, get_last_incomplete_task(task))
    /\ Resumed =>
          /\ task_is_completed(task, task.last_run) => task.ret = 0
          /\ task.ret = 1 =>
                \E id \in DOMAIN task.tasks :
                   task.tasks[id] \in {"running", "failed"}

(***************************************************************************)
(* Runs in which the orchestrator process can die at any point (kill -9,   *)
(* power loss), also while save() writes the state file.                   *)
(***************************************************************************)
\* the outcome of a run that died: the process returned no exit status of
\* its own
Crashed == [code |-> -9, idx |-> idx, hidx |-> hidx, cause |-> "crash"]

\* the orchestrator dies between two writes of the state file
Crash ==
    /\ pc \in {"step", "host", "proc"}
    /\ pc' = "idle"
    /\ res' = Crashed
    /\ UNCHANGED <<plan, writable, disk, state, file, meta, resume, idx, hidx,
                   spawned, exits, state0, loaded, prev, aux>>

\* the process of the unit returned and the orchestrator dies inside the
\* save() of mark_success or mark_failed: open(..., 'w') has emptied the
\* file and json.dump has written a part of the document
CrashInSave ==
    /\ pc = "proc"
    /\ pc' = "idle"
    /\ res' = Crashed
    /\ file' = "corrupt"
    /\ UNCHANGED <<plan, writable, disk, state, meta, resume, idx, hidx,
                   spawned, exits, state0, loaded, prev, aux>>

NextCrash ==
    \/ Next
    \/ Crash
    \/ CrashInSave

SpecCrash == InitFault /\ [][NextCrash]_vars

\* the run that follows a crash starts: it loads the ledger
StartsAfterCrash ==
    /\ pc = "idle"
    /\ res.cause = "crash"
    /\ pc' = "step"

(***************************************************************************)
(* C36: if the orchestrator crashes at any point of a run, also in the     *)
(* middle of a ledger write, every record that was persisted as ok before  *)
(* the crash is ok in the ledger the next run loads.                       *)
(***************************************************************************)
C36_CrashKeepsCompleted ==
    [][StartsAfterCrash =>
          \A k \in DOMAIN disk :
             disk[k].status = "ok" => is_completed(state', k)]_vars

(***************************************************************************)
(* Two orchestrator instances on one state file.  Each loads the document  *)
(* when it starts and writes its whole copy on every mark; nothing locks   *)
(* the file.  The plans of these runs are command steps on localhost that  *)
(* can be executed, for which the executor takes no other branch than the  *)
(* resume check, the spawn and the exit of the process.                    *)
(***************************************************************************)
TwoPlans ==
    { PlanOf(p) :
        p \in [1..2 -> { MkStep("command", of, FALSE, Scalar("localhost"),
                                "echo hi", NoFile) :
                            of \in {"fail", "continue"} }] }

InitTwo ==
    /\ plan \in TwoPlans
    /\ disk = EmptyLedger
    /\ state = EmptyLedger
    /\ file = "missing"
    /\ meta = NoMeta
    /\ Idle0
    /\ NoAux

\* the second instance starts: _load, initialize and its save()
PeerStart ==
    /\ peer.pc = "none"
    /\ LET doc == initialize(Loaded, RunMeta.env, RunMeta.deployment_type,
                             RunMeta.deployment_plan)
       IN  /\ peer' = [pc |-> "step", state |-> doc.steps, idx |-> 1]
           /\ Save(doc)
    /\ UNCHANGED <<plan, writable, state, resume, pc, idx, hidx, spawned,
                   exits, state0, loaded, res, prev, rc, call, ret, task>>

\* the second instance: mark_running and its save(), then run_command
PeerSpawn ==
    /\ peer.pc = "step"
    /\ LET m == mark_running(peer.state, StepId(plan[peer.idx]),
                             KindOf(plan[peer.idx]))
       IN  /\ peer' = [peer EXCEPT !.pc = "proc", !.state = m]
           /\ Save(Document(m))
    /\ UNCHANGED <<plan, writable, state, resume, pc, idx, hidx, spawned,
                   exits, state0, loaded, res, prev, rc, call, ret, task>>

\* the second instance: run_command returned c; mark_success or
\* mark_failed and its save(); the loop goes on or returns
PeerExit(c) ==
    /\ peer.pc = "proc"
    /\ LET k == StepId(plan[peer.idx])
           m == IF c = 0 THEN mark_success(peer.state, k)
                ELSE mark_failed(peer.state, k)
           on == c = 0 \/ OnFailure(plan[peer.idx]) = "continue"
       IN  /\ peer' = IF on /\ peer.idx < Len(plan)
                      THEN [pc |-> "step", state |-> m, idx |-> peer.idx + 1]
                      ELSE [pc |-> "done", state |-> m, idx |-> peer.idx]
           /\ Save(Document(m))
    /\ UNCHANGED <<plan, writable, state, resume, pc, idx, hidx, spawned,
                   exits, state0, loaded, res, prev, rc, call, ret, task>>

NextTwo ==
    \/ \E r \in BOOLEAN : StartRun(r)
    \/ AlreadyCompleted
    \/ Spawn
    \/ \E c \in ExitCodes : ProcExit(c)
    \/ Interrupt
    \/ PeerStart
    \/ PeerSpawn
    \/ \E c \in ExitCodes : PeerExit(c)

SpecTwo == InitTwo /\ [][NextTwo]_vars

\* a record this instance holds is missing on disk or differs there
LostUpdate ==
    \E k \in DOMAIN state : k \notin DOMAIN disk \/ disk[k] # state[k]

(***************************************************************************)
(* C31: with one orchestrator instance no update of the ledger is lost:    *)
(* as long as no second instance has started, every record the instance    *)
(* holds is on disk as it holds it.  (That a second instance makes a lost  *)
(* update reachable is the state C31_Witness describes.)                   *)
(***************************************************************************)
C31_SingleWriter ==
    peer.pc = "none" => (~LostUpdate /\ disk = state)

\* the first instance ran step a_h to ok and persisted the record; the
\* second instance, which had loaded the file before and never had that
\* key, wrote its copy: the record is missing on disk
C31_Witness ==
    /\ SpawnedUnit(2, 0)
    /\ get_step_status(state, "a_h") = "ok"
    /\ peer.pc # "none"
    /\ "a_h" \notin DOMAIN peer.state
    /\ "a_h" \notin DOMAIN disk
    /\ file = "ok"

(***************************************************************************)
(* The step loop of main.py, as a function of the plan, the resume flag,   *)
(* the ledger it loaded and the exit codes of the processes it spawns.     *)
(***************************************************************************)
\* state["steps"][step_id] = {"status": ...} of the legacy loop
LegacyRecord(status) == [status |-> status, kind |-> Absent, reason |-> Absent]

\* the legacy loop returned code at unit (j, h)
LegacyDone(code, j, h, m, sp) ==
    [code |-> code, idx |-> j, hidx |-> h, steps |-> m, spawned |-> sp]

\* should_iterate of main.py: the kind is compared as it is written
legacy_should_iterate(s) ==
    /\ KindOf(s) = "command"
    /\ s.iterate
    /\ s.hosts.isList
    /\ Len(s.hosts.names) > 1

RECURSIVE legacy_loop(_, _, _, _, _, _)
\* main.py from step j on; h = -1 at the head of the loop over the steps,
\* 0 in a single execution, else the host index; m the steps in memory, e
\* the exit results still to come (TRUE: 0), sp the units spawned so far
legacy_loop(j, h, m, e, sp, r) ==
    IF j > Len(plan) THEN LegacyDone(EXIT_SUCCESS, 0, 0, m, sp)
    ELSE
    LET s == plan[j]
        id == StepId(s)
        iter == legacy_should_iterate(s)
    IN  IF h = -1
        THEN IF KindOf(s) = ""
             THEN legacy_loop(j + 1, -1, Put(m, id, LegacyRecord("skipped")),
                              e, sp, r)
             ELSE IF r /\ get_step_status(m, id) = "ok"
             THEN legacy_loop(j + 1, -1, m, e, sp, r)
             ELSE legacy_loop(j, IF iter THEN 1 ELSE 0, m, e, sp, r)
        ELSE
        LET u == IF iter THEN StepForHost(s, h) ELSE s
            k == IF iter THEN StateKey(s, h) ELSE id
            last == ~iter \/ h = Len(s.hosts.names)
            nj == IF last THEN j + 1 ELSE j
            nh == IF last THEN -1 ELSE h + 1
            failed == Put(m, id, LegacyRecord("failed"))
            running == Put(m, k, [status |-> "running", kind |-> KindOf(s),
                                  reason |-> Absent])
            sp1 == Append(sp, <<j, h>>)
            run ==
                IF build_command(u) # "argv"
                THEN LegacyDone(EXIT_UNSUPPORTED_KIND, j, h, failed, sp)
                ELSE IF e = <<>>
                THEN LegacyDone(-1, j, h, running, sp1)
                ELSE IF Head(e)
                THEN legacy_loop(nj, nh, mark_success(running, k), Tail(e),
                                 sp1, r)
                ELSE IF OnFailure(s) = "continue"
                THEN legacy_loop(nj, nh, mark_failed(running, k), Tail(e),
                                 sp1, r)
                ELSE LegacyDone(EXIT_STEP_FAILED, j, h,
                                mark_failed(running, k), sp1)
        IN  IF KindOf(s) = "command"
            THEN IF NoCommand(u)
                 THEN LegacyDone(EXIT_CONFIG_ERROR, j, h, failed, sp)
                 ELSE run
            ELSE IF u.file = NoFile
            THEN legacy_loop(nj, nh, Put(m, id, LegacyRecord("skipped")), e,
                             sp, r)
            ELSE IF find_step_file(u.file) = <<"raise">>
            THEN LegacyDone(EXIT_FILE_NOT_FOUND, j, h, failed, sp)
            ELSE IF find_step_file(u.file) \notin ExistingFiles
            THEN LegacyDone(EXIT_FILE_NOT_FOUND, j, h, failed, sp)
            ELSE run

\* main.py run on what this run of deploy-env.py was given
Legacy == legacy_loop(1, -1, state0, exits, <<>>, resume)

\* the status under every key of a ledger
Statuses(m) == [k \in DOMAIN m |-> m[k].status]

\* this run of deploy-env.py ended by itself
RunEnded == pc = "idle" /\ res.code \in {EXIT_SUCCESS, EXIT_STEP_FAILED}

(***************************************************************************)
(* C37: the StepExecutor driven by deploy-env.py and the step loop of      *)
(* main.py are equivalent: for every plan, resume flag, initial ledger and *)
(* sequence of exit codes both spawn processes for the same units in the   *)
(* same order, halt at the same unit, and leave the same status under the  *)
(* same key for every record.                                              *)
(***************************************************************************)
C37_LegacyEquivalent ==
    RunEnded =>
        /\ Legacy.spawned = spawned
        /\ (Legacy.code = EXIT_SUCCESS) <=> (res.code = EXIT_SUCCESS)
        /\ res.code # EXIT_SUCCESS =>
              (Legacy.idx = res.idx /\ Legacy.hidx = res.hidx)
        /\ Statuses(Legacy.steps) = Statuses(state)

====
